---- MODULE Spec2Model ----
(***************************************************************************)
(* Model of scripts/spec-kit/nightly_sync_detect.py, the nightly sync      *)
(* drift detector: one run of main() from argument parsing to the exit     *)
(* status.  Text (paths, patterns, record content) is a sequence of        *)
(* one-character strings, so that the regular expression, the trimming of  *)
(* normalise_path, Path.parts, fnmatch and the ordering used by sorted()   *)
(* are computed character by character as the code computes them.          *)
(***************************************************************************)
EXTENDS Integers, Sequences, FiniteSets, TLC

(***************************************************************************)
(* Characters and strings                                                  *)
(***************************************************************************)

\* The grave accent (code point 96) cannot be written inside a string of this
\* language; this atom stands for that one character.
Backtick == "GRAVE"

\* The code points the model uses, in increasing order (Python compares
\* strings code point by code point).
Ascii ==
    <<"\t","\n","\r"," ","!","\"","#","$","%","&","'","(",")","*","+",",","-",".","/",
      "0","1","2","3","4","5","6","7","8","9",":",";","<","=",">","?","@",
      "A","B","C","D","E","F","G","H","I","J","K","L","M","N","O","P","Q","R","S","T",
      "U","V","W","X","Y","Z","[","\\","]","^","_",Backtick,
      "a","b","c","d","e","f","g","h","i","j","k","l","m","n","o","p","q","r","s","t",
      "u","v","w","x","y","z","{","|","}","~">>

Ord(c) == CHOOSE i \in 1..Len(Ascii) : Ascii[i] = c

LowerAlpha ==
    <<"a","b","c","d","e","f","g","h","i","j","k","l","m","n","o","p","q","r","s","t",
      "u","v","w","x","y","z">>

UpperAlpha ==
    <<"A","B","C","D","E","F","G","H","I","J","K","L","M","N","O","P","Q","R","S","T",
      "U","V","W","X","Y","Z">>

\* str.upper()
Upper(s) ==
    [i \in 1..Len(s) |->
        IF \E k \in 1..Len(LowerAlpha) : LowerAlpha[k] = s[i]
        THEN UpperAlpha[CHOOSE k \in 1..Len(LowerAlpha) : LowerAlpha[k] = s[i]]
        ELSE s[i]]

\* str.startswith(prefix)
StartsWith(s, prefix) ==
    /\ Len(prefix) <= Len(s)
    /\ \A i \in 1..Len(prefix) : s[i] = prefix[i]

\* s[from:] (from is 1-based here)
Drop(s, n) == SubSeq(s, n + 1, Len(s))

Min(S) == CHOOSE x \in S : \A y \in S : x <= y

\* a < b for Python strings: the first position where they differ decides,
\* a proper prefix is smaller.
StrLess(a, b) ==
    LET common == IF Len(a) < Len(b) THEN Len(a) ELSE Len(b)
        differ == {i \in 1..common : a[i] # b[i]}
    IN  IF differ = {} THEN Len(a) < Len(b)
        ELSE Ord(a[Min(differ)]) < Ord(b[Min(differ)])

\* sorted(S) for a set of strings
RECURSIVE SortedStrings(_)
SortedStrings(S) ==
    IF S = {} THEN <<>>
    ELSE LET m == CHOOSE x \in S : \A y \in S : x = y \/ StrLess(x, y)
         IN  <<m>> \o SortedStrings(S \ {m})

Whitespace == {" ", "\t", "\n", "\r"}

\* str.lstrip(chars) / str.rstrip(chars) / str.strip(chars)
LStrip(s, chars) ==
    IF \A i \in 1..Len(s) : s[i] \in chars THEN <<>>
    ELSE LET first == CHOOSE i \in 1..Len(s) :
                          /\ s[i] \notin chars
                          /\ \A j \in 1..(i - 1) : s[j] \in chars
         IN  SubSeq(s, first, Len(s))

RStrip(s, chars) ==
    IF \A i \in 1..Len(s) : s[i] \in chars THEN <<>>
    ELSE LET last == CHOOSE i \in 1..Len(s) :
                         /\ s[i] \notin chars
                         /\ \A j \in (i + 1)..Len(s) : s[j] \in chars
         IN  SubSeq(s, 1, last)

Strip(s, chars) == RStrip(LStrip(s, chars), chars)

\* The pieces of s between the occurrences of the character sep.
Split(s, sep) ==
    LET at == {i \in 1..Len(s) : s[i] = sep}
        n == Cardinality(at)
        pos(k) == IF k = 0 THEN 0
                  ELSE IF k = n + 1 THEN Len(s) + 1
                  ELSE CHOOSE i \in at : Cardinality({j \in at : j <= i}) = k
    IN  [k \in 1..(n + 1) |-> SubSeq(s, pos(k - 1) + 1, pos(k) - 1)]

\* str.replace(old, new) for single characters
Replace(s, old, new) == [i \in 1..Len(s) |-> IF s[i] = old THEN new ELSE s[i]]

\* Optional values: None is the empty tuple, a present value x is <<x>>.
None == <<>>
Some(x) == <<x>>

(***************************************************************************)
(* Program constants                                                       *)
(***************************************************************************)

EVIDENCE_ROOT_DEFAULT ==
    <<"d","o","c","s","/","S","P","E","C","-","O","P","S","-","0","0","4","-",
      "i","n","t","e","g","r","a","t","e","d","-","c","o","d","e","r","-",
      "h","o","o","k","s","/","e","v","i","d","e","n","c","e","/",
      "c","o","m","m","a","n","d","s">>

\* EVIDENCE_REGEX is written as a raw string in which the bracket expression
\* reads: backslash backslash w dot slash backslash backslash hyphen.  In a raw
\* string the two backslashes stay two characters, which the regular
\* expression reads as one escaped backslash, so the bracket expression holds
\* the characters backslash, w, dot, slash and hyphen (not the word class).
EVIDENCE_REGEX_PREFIX == EVIDENCE_ROOT_DEFAULT \o <<"/">>

EVIDENCE_REGEX_CLASS == {"\\", "w", ".", "/", "-"}

GLOBAL_SPEC == <<"G","L","O","B","A","L">>

SummaryLen == 200

(***************************************************************************)
(* Pure functions of the program                                           *)
(***************************************************************************)

\* normalise_path(raw): None or Some(path)
normalise_path(raw) ==
    LET path == Replace(
                    RStrip(Strip(Strip(raw, Whitespace), {Backtick, "\""}),
                           {")", ".", ",", ":", ";"}),
                    "\\", "/")
    IN  IF path = <<>> THEN None
        ELSE IF ~StartsWith(path, EVIDENCE_ROOT_DEFAULT) THEN None
        ELSE Some(path)

IsNamePart(seg) == seg # <<>> /\ seg # <<".">>

\* Path(path).parts on a POSIX system: empty pieces and single dots are
\* dropped, a leading slash is a part of its own (two leading slashes, and
\* only exactly two, are kept as one part).
PathParts(path) ==
    LET names == SelectSeq(Split(path, "/"), IsNamePart)
        root  == IF StartsWith(path, <<"/", "/">>) /\ ~StartsWith(path, <<"/", "/", "/">>)
                 THEN << <<"/", "/">> >>
                 ELSE IF StartsWith(path, <<"/">>) THEN << <<"/">> >>
                 ELSE <<>>
    IN  root \o names

SpecPrefix == <<"S","P","E","C","-">>

CommandsPart == <<"c","o","m","m","a","n","d","s">>

\* extract_spec_id(path): None or Some(segment)
extract_spec_id(path) ==
    LET parts == PathParts(path)
        hits  == {idx \in 1..Len(parts) :
                    /\ parts[idx] = CommandsPart
                    /\ idx + 1 <= Len(parts)
                    /\ StartsWith(Upper(parts[idx + 1]), SpecPrefix)}
    IN  IF hits = {} THEN None
        ELSE Some(parts[(CHOOSE idx \in hits : \A other \in hits : idx <= other) + 1])

\* extract_spec_id(path) or GLOBAL_SPEC.  A segment that passed the SPEC-
\* test is never empty, so "or" falls through only on None.
SpecOrGlobal(path) ==
    LET spec_id == extract_spec_id(path)
    IN  IF spec_id = None THEN GLOBAL_SPEC ELSE spec_id[1]

\* s[i .. i + Len(prefix) - 1] = prefix
StartsWithAt(s, i, prefix) ==
    /\ i + Len(prefix) - 1 <= Len(s)
    /\ \A k \in 1..Len(prefix) : s[i + k - 1] = prefix[k]

\* Last index of the greedy run of bracket-expression characters that
\* starts at i.
ClassRunEnd(s, i) ==
    LET stop == CHOOSE k \in i..(Len(s) + 1) :
                    /\ k > Len(s) \/ s[k] \notin EVIDENCE_REGEX_CLASS
                    /\ \A j \in i..(k - 1) : s[j] \in EVIDENCE_REGEX_CLASS
    IN  stop - 1

\* The regular expression matches at i: the prefix, then at least one
\* character of the bracket expression.
MatchesAt(content, i) ==
    /\ StartsWithAt(content, i, EVIDENCE_REGEX_PREFIX)
    /\ i + Len(EVIDENCE_REGEX_PREFIX) <= Len(content)
    /\ content[i + Len(EVIDENCE_REGEX_PREFIX)] \in EVIDENCE_REGEX_CLASS

\* The matches that start in the set starts at position i or later: the
\* leftmost one, as long as possible, then the search goes on after it.
RECURSIVE FindFrom(_, _, _)
FindFrom(content, starts, i) ==
    LET later == {j \in starts : j >= i}
    IN  IF later = {} THEN <<>>
        ELSE LET first == Min(later)
                 last == ClassRunEnd(content, first + Len(EVIDENCE_REGEX_PREFIX))
             IN  <<SubSeq(content, first, last)>> \o FindFrom(content, starts, last + 1)

\* [m.group(1) for m in EVIDENCE_REGEX.finditer(content)] from position i on
FindIter(content, i) ==
    FindFrom(content, {j \in i..Len(content) : MatchesAt(content, j)}, i)

\* fnmatch.fnmatch(name, pat) on a POSIX system (normcase changes nothing).
\* fnmatch translates the pattern to a regular expression that must match
\* the whole name: a star becomes "any run of characters" (slashes
\* included), a question mark "any one character", any other character
\* itself.  So the pieces of the pattern between stars must occur in the
\* name in order, the first at the start and the last at the end.
\* Bracket expressions are not used by the patterns of this model.
PieceAt(name, j, piece) ==
    /\ j + Len(piece) - 1 <= Len(name)
    /\ \A t \in 1..Len(piece) : piece[t] = "?" \/ piece[t] = name[j + t - 1]

\* The pieces from the k-th on match name from some position at or after i
\* up to its end.
RECURSIVE PiecesAfterStar(_, _, _, _)
PiecesAfterStar(name, i, pieces, k) ==
    IF k > Len(pieces) THEN TRUE
    ELSE \E j \in i..(Len(name) + 1) :
            /\ PieceAt(name, j, pieces[k])
            /\ IF k = Len(pieces) THEN j + Len(pieces[k]) = Len(name) + 1
               ELSE PiecesAfterStar(name, j + Len(pieces[k]), pieces, k + 1)

fnmatch(name, pat) ==
    LET pieces == Split(pat, "*")
    IN  /\ PieceAt(name, 1, pieces[1])
        /\ IF Len(pieces) = 1 THEN Len(pieces[1]) = Len(name)
           ELSE PiecesAfterStar(name, 1 + Len(pieces[1]), pieces, 2)

\* is_allowed matching the pattern against the full path only.
is_allowed_path_only(path, patterns) ==
    \E k \in 1..Len(patterns) : fnmatch(path, patterns[k])

\* is_allowed(path, patterns)
is_allowed(path, patterns) ==
    \E k \in 1..Len(patterns) :
        \/ fnmatch(path, patterns[k])
        \/ fnmatch(SpecOrGlobal(path), patterns[k])

\* The test of line 88 without the comment test: only blank lines are
\* skipped.
IsAllowlistEntryUnlessBlank(raw_line) ==
    Strip(raw_line, Whitespace) # <<>>

IsAllowlistEntry(raw_line) ==
    LET line == Strip(raw_line, Whitespace)
    IN  line # <<>> /\ ~StartsWith(line, <<"#">>)

StripLine(raw_line) == Strip(raw_line, Whitespace)

\* The entries load_allowlist returns for a file with these lines.
AllowlistEntries(raw_lines) ==
    LET kept == SelectSeq(raw_lines, IsAllowlistEntry)
    IN  [k \in 1..Len(kept) |-> StripLine(kept[k])]

(***************************************************************************)
(* Inputs of one run: the command line and the files it names              *)
(***************************************************************************)

\* Bound: the longest memory export, in physical lines.
MaxLines == 2

\* The repository root (--repo-root, or the working directory), resolved.
RepoRoot == <<"/","r">>

\* An evidence root outside the repository, given as an absolute path.
OutsideRoot == <<"/","o">>

AllowlistPath == <<"a","l","l","o","w",".","t","x","t">>

MemoryPath == <<"t","m","p","/","m","e","m","o","r","i","e","s",".","j","s","o","n","l">>

JoinPath(a, b) == a \o <<"/">> \o b

\* Files that may exist on disk (absolute paths).
FileW == JoinPath(RepoRoot, JoinPath(EVIDENCE_ROOT_DEFAULT, <<"w">>))

FileSpec == JoinPath(RepoRoot, JoinPath(EVIDENCE_ROOT_DEFAULT, <<"S","P","E","C","-","1","/","a",".","j","s","o","n">>))

FileLower == JoinPath(RepoRoot, JoinPath(EVIDENCE_ROOT_DEFAULT, <<"s","p","e","c","-","1","/","w">>))

FileOutside == JoinPath(OutsideRoot, <<"c","o","m","m","a","n","d","s","/","S","P","E","C","-","1","/","a",".","j","s","o","n">>)

DefaultRootFiles == {FileW, FileSpec, FileLower}

\* Evidence paths as a memory record writes them.
CiteW == JoinPath(EVIDENCE_ROOT_DEFAULT, <<"w">>)

CiteWW == JoinPath(EVIDENCE_ROOT_DEFAULT, <<"w","/","w">>)

CiteSpec == JoinPath(EVIDENCE_ROOT_DEFAULT, <<"S","P","E","C","-","1","/","a",".","j","s","o","n">>)

\* One physical line of the export, given by what strip() and json.loads make
\* of it: kind "blank" (empty after strip), "invalid" (json.loads raises
\* JSONDecodeError), "nonobject" (valid JSON, not an object) or "object".
\* For an object, id and slug are None (absent or null) or Some(text), and
\* content is text (has = "str"), a non-string value (has = "other") or not
\* there at all (has = "absent").
ExportLine(kind, id, slug, has, text) ==
    [kind |-> kind, id |-> id, slug |-> slug, has |-> has, text |-> text]

LineBlank == ExportLine("blank", None, None, "absent", <<>>)

LineInvalid == ExportLine("invalid", None, None, "absent", <<>>)

LineNonObject == ExportLine("nonobject", None, None, "absent", <<>>)

LineBadContent == ExportLine("object", Some(<<"m","0">>), None, "other", <<>>)

\* One record citing the same file twice, with different punctuation around it.
LineDup ==
    ExportLine("object", Some(<<"m","1">>), Some(<<"s","1">>), "str",
               <<"s","e","e"," ">> \o CiteW \o <<"."," ","a","n","d"," ",Backtick>> \o CiteW \o <<Backtick>>)

\* One record of more than SummaryLen characters citing two paths twice each,
\* the later path in sort order first, with a newline in the text.
LineTwo ==
    ExportLine("object", Some(<<"m","2">>), None, "str",
               CiteWW \o <<"\n">> \o CiteW \o <<" ">> \o CiteWW \o <<".", " ">> \o CiteW)

\* One record citing a file in a SPEC directory.
LineSpec ==
    ExportLine("object", Some(<<"m","3">>), Some(<<"s","3">>), "str",
               <<"e","v","i","d","e","n","c","e",":"," ">> \o CiteSpec)

Lines == {LineBlank, LineInvalid, LineNonObject, LineBadContent, LineDup, LineTwo, LineSpec}

Exports == UNION {[1..n -> Lines] : n \in 0..MaxLines}

\* Allowlist files (raw lines).
AllowGlobal ==
    <<<<"#"," ","m","a","y"," ","d","r","i","f","t">>, <<>>,
      <<" ","G","L","O","B","A","L"," ">>, <<"S","P","E","C","-","9">>>>

AllowSpecPath == <<<<"d","o","c","s","/","*","/","S","P","E","C","-","1","/","*">>>>

AllowQuestion == <<<<"*","/","w","/","?">>>>

AllowlistFiles == {AllowGlobal, AllowSpecPath, AllowQuestion}

\* --spec values as typed.
SpecArgs == {None, Some(<<<<"s","p","e","c","-","1">>>>)}

\* args: the parsed command line.  allowlist and json_out say whether the
\* option was given; spec_filter is None or Some(list of values).
ArgsSet ==
    [allowlist : BOOLEAN, spec_filter : SpecArgs,
     evidence_root : {EVIDENCE_ROOT_DEFAULT, OutsideRoot}, json_out : BOOLEAN]

\* fs: what exists on disk when the run starts.  allowlist_exists and
\* evidence_root_exists say whether the paths given exist; memory_file is
\* None (no such file) or Some(lines).  The lines of the allowlist file and
\* the files under the evidence root are drawn when the run reads them.
FsSet ==
    [allowlist_exists : BOOLEAN,
     memory_file : {None} \cup {Some(e) : e \in Exports},
     evidence_root_exists : BOOLEAN]

\* The regular files rglob can find under an evidence root (absolute paths).
TreesUnder(root) ==
    IF root = OutsideRoot THEN {{FileOutside}} ELSE SUBSET DefaultRootFiles

(***************************************************************************)
(* State of one run                                                        *)
(***************************************************************************)

VARIABLES
    args,             \* the parsed command line
    fs,               \* what exists on disk when the run starts
    allowlist_file,   \* the lines of the allowlist file, once read (None before)
    tree,             \* the files found under the evidence root, once scanned
    pc,               \* where main() is
    allowlist,        \* main: allowlist
    handle_open,      \* collect_memory_references: the export handle is open
    idx,              \* collect_memory_references: number of the line last read
    entries_scanned,  \* collect_memory_references: entries_scanned
    references,       \* collect_memory_references: the dict, in insertion order
    evidence_files,   \* build_report: evidence_files
    report,           \* main: report (None until build_report returns)
    stdout,           \* what has been printed on standard output
    stderr,           \* what has been printed on standard error
    json_file,        \* the --json-out file: None or Some(report written)
    exit_status,      \* None while running, Some(n) once the process has ended
    run,              \* which run of the detector on these inputs this is
    previous,         \* what the run before this one emitted (None in a first run)
    call,             \* a single call of one of the pure functions, or NoCall
    mig,              \* migrate_local_memory.py: one run of its main(), or MigIdle
    tel               \* telemetry_utils.py: the files and the call under way, or TelIdle

vars ==
    <<args, fs, allowlist_file, tree, pc, allowlist, handle_open, idx,
      entries_scanned, references, evidence_files, report, stdout, stderr,
      json_file, exit_status, run, previous, call, mig, tel>>

\* main: spec_filter (the values upper-cased, or None)
MainSpecFilter(a) ==
    IF a.spec_filter = None THEN None
    ELSE Some({Upper(a.spec_filter[1][k]) : k \in 1..Len(a.spec_filter[1])})

spec_filter == MainSpecFilter(args)

\* The filter test without "spec_id is None": a path without a spec id is
\* kept under an active filter.
PassesFilterKeepingUnscoped(spec_id, filter) ==
    ~ (/\ filter # None
       /\ filter[1] # {}
       /\ spec_id # None
       /\ spec_id[1] \notin filter[1])

\* The test "spec_filter and (spec_id is None or spec_id not in spec_filter)"
\* negated: the path is kept.
PassesFilter(spec_id, filter) ==
    ~ (/\ filter # None
       /\ filter[1] # {}
       /\ (spec_id = None \/ spec_id[1] \notin filter[1]))

\* resolve_with_root(path, repo_root)
resolve_with_root(path, repo_root) ==
    IF StartsWith(path, <<"/">>) THEN path ELSE JoinPath(repo_root, path)

\* relative_path(path, repo_root) for a resolved path
relative_path(path, repo_root) ==
    IF StartsWith(path, repo_root \o <<"/">>)
    THEN Drop(path, Len(repo_root) + 1)
    ELSE path

\* No pure function is called on its own: main runs.
NoCall == [fn |-> "main"]

\* The migration script is not run.
MigIdle == [pc |-> "idle"]

\* No command of the telemetry helper is run.
TelIdle == [pc |-> "idle"]

Message(kind, path, line) == [kind |-> kind, path |-> path, line |-> line]

Init ==
    /\ args \in ArgsSet
    /\ fs \in FsSet
    /\ (~args.allowlist => ~fs.allowlist_exists)
    /\ allowlist_file = None
    /\ tree = {}
    /\ pc = "load_allowlist"
    /\ allowlist = <<>>
    /\ handle_open = FALSE
    /\ idx = 0
    /\ entries_scanned = 0
    /\ references = <<>>
    /\ evidence_files = {}
    /\ report = None
    /\ stdout = <<>>
    /\ stderr = <<>>
    /\ json_file = None
    /\ exit_status = None
    /\ run = "first"
    /\ previous = None
    /\ call = NoCall
    /\ mig = MigIdle
    /\ tel = TelIdle

\* main, lines 339-341: the exception is caught, the message printed, 2 returned.
Fail(msg) ==
    /\ stderr' = Append(stderr, msg)
    /\ exit_status' = Some(2)
    /\ pc' = "done"

\* An exception main does not catch: the interpreter prints the traceback and
\* the process ends with status 1.
Uncaught(exc) ==
    /\ stderr' = Append(stderr, Message("Traceback", exc, 0))
    /\ exit_status' = Some(1)
    /\ pc' = "done"

(***************************************************************************)
(* load_allowlist                                                          *)
(***************************************************************************)
LoadAllowlist ==
    /\ pc = "load_allowlist"
    /\ IF ~args.allowlist
       THEN /\ allowlist' = <<>>
            /\ pc' = "open_memory"
            /\ UNCHANGED <<allowlist_file, stderr, exit_status>>
       ELSE IF ~fs.allowlist_exists
       THEN /\ Fail(Message("AllowlistNotFound", AllowlistPath, 0))
            /\ UNCHANGED <<allowlist_file, allowlist>>
       ELSE \E raw_lines \in AllowlistFiles :
            \* a later run on the same inputs reads the same file
            /\ allowlist_file # None => raw_lines = allowlist_file[1]
            /\ allowlist_file' = Some(raw_lines)
            /\ allowlist' = AllowlistEntries(raw_lines)
            /\ pc' = "open_memory"
            /\ UNCHANGED <<stderr, exit_status>>
    /\ UNCHANGED <<args, fs, tree, handle_open, idx, entries_scanned,
                   references, evidence_files, report, stdout, json_file, run,
                   previous, call, mig, tel>>

(***************************************************************************)
(* collect_memory_references                                               *)
(***************************************************************************)
memory_jsonl == resolve_with_root(MemoryPath, RepoRoot)

OpenMemory ==
    /\ pc = "open_memory"
    /\ IF fs.memory_file = None
       THEN /\ Fail(Message("MemoryNotFound", memory_jsonl, 0))
            /\ UNCHANGED handle_open
       ELSE /\ handle_open' = TRUE
            /\ pc' = "read_lines"
            /\ UNCHANGED <<stderr, exit_status>>
    /\ UNCHANGED <<args, fs, allowlist_file, tree, allowlist, idx,
                   entries_scanned, references, evidence_files, report,
                   stdout, json_file, run, previous, call, mig, tel>>

\* record.get("content", "")
ContentOf(line) == IF line.has = "absent" THEN <<>> ELSE line.text

\* The list matches of one record: the normalised spans that pass the filter,
\* in order of occurrence, repeats included.
RECURSIVE KeptMatches(_, _, _)
KeptMatches(found, k, filter) ==
    IF k > Len(found) THEN <<>>
    ELSE LET normalised == normalise_path(found[k])
         IN  IF normalised = None
             THEN KeptMatches(found, k + 1, filter)
             ELSE IF ~PassesFilter(extract_spec_id(normalised[1]), filter)
             THEN KeptMatches(found, k + 1, filter)
             ELSE <<normalised[1]>> \o KeptMatches(found, k + 1, filter)

MatchesOf(content, filter) == KeptMatches(FindIter(content, 1), 1, filter)

\* content[:200].replace("\n", " ")
SummaryOf(content) ==
    Replace(SubSeq(content, 1, IF Len(content) < SummaryLen THEN Len(content) ELSE SummaryLen),
            "\n", " ")

MemoryReference(line) ==
    [memory_id |-> line.id, slug |-> line.slug, summary |-> SummaryOf(ContentOf(line))]

Keys(refs) == {refs[k].path : k \in 1..Len(refs)}

RefsOf(refs, path) == refs[CHOOSE k \in 1..Len(refs) : refs[k].path = path].refs

\* references.setdefault(path, []).append(memory_ref)
AppendRef(refs, path, memory_ref) ==
    IF path \in Keys(refs)
    THEN [k \in 1..Len(refs) |->
            IF refs[k].path = path
            THEN [path |-> path, refs |-> Append(refs[k].refs, memory_ref)]
            ELSE refs[k]]
    ELSE Append(refs, [path |-> path, refs |-> <<memory_ref>>])

\* Lines 149-154 without the seen set: every match appends.
RECURSIVE AddMatchesNoSeen(_, _, _, _, _)
AddMatchesNoSeen(refs, matches, k, seen, memory_ref) ==
    IF k > Len(matches) THEN refs
    ELSE AddMatchesNoSeen(AppendRef(refs, matches[k], memory_ref), matches, k + 1,
                          seen, memory_ref)

\* Lines 149-154: each path of matches appends once per record.
RECURSIVE AddMatches(_, _, _, _, _)
AddMatches(refs, matches, k, seen, memory_ref) ==
    IF k > Len(matches) THEN refs
    ELSE IF matches[k] \in seen
    THEN AddMatches(refs, matches, k + 1, seen, memory_ref)
    ELSE AddMatches(AppendRef(refs, matches[k], memory_ref), matches, k + 1,
                    seen \cup {matches[k]}, memory_ref)

\* Every physical line counts, blank ones too.
EntriesScannedCountingBlank(n, line) == n + 1

\* entries_scanned after a line: the increment comes after the blank test
\* and before json.loads.
EntriesScannedAfter(n, line) == IF line.kind = "blank" THEN n ELSE n + 1

NextLine == fs.memory_file[1][idx + 1]

HasNextLine == pc = "read_lines" /\ idx < Len(fs.memory_file[1])

\* Lines 123-125: a line that is empty after strip() is skipped.
SkipBlankLine ==
    /\ HasNextLine
    /\ NextLine.kind = "blank"
    /\ idx' = idx + 1
    /\ entries_scanned' = EntriesScannedAfter(entries_scanned, NextLine)
    /\ UNCHANGED <<args, fs, allowlist_file, tree, pc, allowlist, handle_open,
                   references, evidence_files, report, stdout, stderr,
                   json_file, exit_status, run, previous, call, mig, tel>>

\* Lines 127-130 with the handle opened outside a with block and closed only
\* after the loop: the raise leaves it open.
RaiseInvalidJsonLeavingHandle ==
    /\ HasNextLine
    /\ NextLine.kind = "invalid"
    /\ idx' = idx + 1
    /\ entries_scanned' = EntriesScannedAfter(entries_scanned, NextLine)
    /\ Fail(Message("InvalidJSON", <<>>, idx + 1))
    /\ UNCHANGED <<args, fs, allowlist_file, tree, allowlist, handle_open,
                   references, evidence_files, report, stdout, json_file, run,
                   previous, call, mig, tel>>

\* Lines 127-130: json.loads raises, ValueError leaves the with block (which
\* closes the handle) and is caught by main.
RaiseInvalidJson ==
    /\ HasNextLine
    /\ NextLine.kind = "invalid"
    /\ idx' = idx + 1
    /\ entries_scanned' = EntriesScannedAfter(entries_scanned, NextLine)
    /\ handle_open' = FALSE
    /\ Fail(Message("InvalidJSON", <<>>, idx + 1))
    /\ UNCHANGED <<args, fs, allowlist_file, tree, allowlist, references,
                   evidence_files, report, stdout, json_file, run, previous,
                   call, mig, tel>>

\* Line 131 on a value that is not an object (AttributeError: no get), or
\* line 133 on content that is not a string (TypeError): neither is a
\* FileNotFoundError or a ValueError, so main does not catch it.
RaiseOnRecord ==
    /\ HasNextLine
    /\ \/ NextLine.kind = "nonobject"
       \/ (NextLine.kind = "object" /\ NextLine.has = "other")
    /\ idx' = idx + 1
    /\ entries_scanned' = EntriesScannedAfter(entries_scanned, NextLine)
    /\ handle_open' = FALSE
    /\ Uncaught(IF NextLine.kind = "nonobject"
                THEN <<"A","t","t","r","i","b","u","t","e","E","r","r","o","r">>
                ELSE <<"T","y","p","e","E","r","r","o","r">>)
    /\ UNCHANGED <<args, fs, allowlist_file, tree, allowlist, references,
                   evidence_files, report, stdout, json_file, run, previous,
                   call, mig, tel>>

\* Lines 131-154 for a record whose content is a string.
ProcessRecord ==
    /\ HasNextLine
    /\ NextLine.kind = "object"
    /\ NextLine.has # "other"
    /\ idx' = idx + 1
    /\ entries_scanned' = EntriesScannedAfter(entries_scanned, NextLine)
    /\ LET matches == MatchesOf(ContentOf(NextLine), spec_filter)
       IN  references' =
              IF matches = <<>> THEN references
              ELSE AddMatches(references, matches, 1, {}, MemoryReference(NextLine))
    /\ UNCHANGED <<args, fs, allowlist_file, tree, pc, allowlist, handle_open,
                   evidence_files, report, stdout, stderr, json_file,
                   exit_status, run, previous, call, mig, tel>>

\* The loop ends, the with block closes the handle, line 155 returns.
EndOfExport ==
    /\ pc = "read_lines"
    /\ idx = Len(fs.memory_file[1])
    /\ handle_open' = FALSE
    /\ pc' = "collect_evidence"
    /\ UNCHANGED <<args, fs, allowlist_file, tree, allowlist, idx,
                   entries_scanned, references, evidence_files, report,
                   stdout, stderr, json_file, exit_status, run, previous,
                   call, mig, tel>>

(***************************************************************************)
(* collect_evidence_files                                                  *)
(***************************************************************************)
evidence_root == resolve_with_root(args.evidence_root, RepoRoot)

\* The set collect_evidence_files returns when rglob yields these files.
EvidenceFilesOf(found, repo_root, filter) ==
    {rel \in {relative_path(f, repo_root) : f \in found} :
        PassesFilter(extract_spec_id(rel), filter)}

\* The orders in which rglob may yield the files of a tree.
ScanOrders(found) ==
    {order \in [1..Cardinality(found) -> found] :
        \A f \in found : \E k \in 1..Cardinality(found) : order[k] = f}

\* The files the loop of line 166 has seen when rglob is exhausted.
Yielded(order) == {order[k] : k \in 1..Len(order)}

CollectEvidence ==
    /\ pc = "collect_evidence"
    /\ IF ~fs.evidence_root_exists
       THEN /\ Fail(Message("EvidenceNotFound", evidence_root, 0))
            /\ UNCHANGED <<tree, evidence_files>>
       ELSE \E found \in TreesUnder(evidence_root) :
            \E order \in ScanOrders(found) :
            \* a later run on the same inputs finds the same files
            /\ run = "second" => found = tree
            /\ tree' = found
            /\ evidence_files' =
                  EvidenceFilesOf(Yielded(order), RepoRoot, spec_filter)
            /\ pc' = "reconcile"
            /\ UNCHANGED <<stderr, exit_status>>
    /\ UNCHANGED <<args, fs, allowlist_file, allowlist, handle_open, idx,
                   entries_scanned, references, report, stdout, json_file,
                   run, previous, call, mig, tel>>

(***************************************************************************)
(* build_report, lines 204-242                                             *)
(***************************************************************************)
MemoryEntry(path) == [path |-> path, spec |-> SpecOrGlobal(path)]

\* Lines 204-208 without the test "path in references".
MissingMemoryNoReferenceTest(refs, files, patterns) ==
    LET kept == SelectSeq(SortedStrings(files), LAMBDA path : ~is_allowed(path, patterns))
    IN  [k \in 1..Len(kept) |-> MemoryEntry(kept[k])]

\* Lines 204-208 iterating the set without sorted(): some other order, here
\* the descending one.
MissingMemoryDescending(refs, files, patterns) ==
    LET order == SortedStrings(files)
        kept == SelectSeq([k \in 1..Len(order) |-> order[Len(order) + 1 - k]],
                          LAMBDA path : ~(path \in Keys(refs) \/ is_allowed(path, patterns)))
    IN  [k \in 1..Len(kept) |-> MemoryEntry(kept[k])]

\* Lines 204-208 written like lines 210-213: the loop runs over the
\* reference index and tests the evidence set.
MissingMemoryFromReferences(refs, files, patterns) ==
    LET kept == SelectSeq(SortedStrings(Keys(refs)),
                          LAMBDA path : ~(path \in files \/ is_allowed(path, patterns)))
    IN  [k \in 1..Len(kept) |-> MemoryEntry(kept[k])]

\* Lines 204-208
MissingMemory(refs, files, patterns) ==
    LET kept == SelectSeq(SortedStrings(files),
                          LAMBDA path : ~(path \in Keys(refs) \/ is_allowed(path, patterns)))
    IN  [k \in 1..Len(kept) |-> MemoryEntry(kept[k])]

\* Lines 218-225 keeping only the first citing record.
MemoriesOfFirstOnly(ref_list) ==
    [k \in 1..1 |->
        [id |-> ref_list[k].memory_id, slug |-> ref_list[k].slug,
         summary |-> ref_list[k].summary]]

\* The dictionaries of lines 218-225, one per MemoryReference.
MemoriesOf(ref_list) ==
    [k \in 1..Len(ref_list) |->
        [id |-> ref_list[k].memory_id, slug |-> ref_list[k].slug,
         summary |-> ref_list[k].summary]]

EvidenceEntry(refs, path) ==
    [path |-> path, spec |-> SpecOrGlobal(path), memories |-> MemoriesOf(RefsOf(refs, path))]

\* Lines 210-227
MissingEvidence(refs, files, patterns) ==
    LET kept == SelectSeq(SortedStrings(Keys(refs)),
                          LAMBDA path : ~(path \in files \/ is_allowed(path, patterns)))
    IN  [k \in 1..Len(kept) |-> EvidenceEntry(refs, kept[k])]

\* bool(missing_memory)
DriftDetectedMemoryOnly(missing_memory, missing_evidence) ==
    missing_memory # <<>>

\* bool(missing_memory or missing_evidence)
DriftDetected(missing_memory, missing_evidence) ==
    missing_memory # <<>> \/ missing_evidence # <<>>

RECURSIVE SumRefs(_, _)
SumRefs(refs, k) ==
    IF k > Len(refs) THEN 0 ELSE Len(refs[k].refs) + SumRefs(refs, k + 1)

\* The statistics with a counter that a run leaves behind for the next one.
StatsCarriedOver(refs, files, patterns, scanned, filter) ==
    [memory_entries_scanned |-> IF run = "second" THEN scanned + 1 ELSE scanned,
     memory_reference_paths |-> Len(refs),
     memory_reference_count |-> SumRefs(refs, 1),
     evidence_files_scanned |-> Cardinality(files),
     allowlist_size |-> Len(patterns),
     spec_filter |-> IF filter # None /\ filter[1] # {}
                     THEN SortedStrings(filter[1]) ELSE <<>>]

Stats(refs, files, patterns, scanned, filter) ==
    [memory_entries_scanned |-> scanned,
     memory_reference_paths |-> Len(refs),
     memory_reference_count |-> SumRefs(refs, 1),
     evidence_files_scanned |-> Cardinality(files),
     allowlist_size |-> Len(patterns),
     spec_filter |-> IF filter # None /\ filter[1] # {} THEN SortedStrings(filter[1]) ELSE <<>>]

BuildReport(refs, files, patterns, scanned, filter) ==
    LET missing_memory == MissingMemory(refs, files, patterns)
        missing_evidence == MissingEvidence(refs, files, patterns)
    IN  [drift_detected |-> DriftDetected(missing_memory, missing_evidence),
         missing_memory |-> missing_memory,
         missing_evidence |-> missing_evidence,
         stats |-> Stats(refs, files, patterns, scanned, filter)]

Reconcile ==
    /\ pc = "reconcile"
    /\ report' = Some(BuildReport(references, evidence_files, allowlist, entries_scanned,
                                  spec_filter))
    /\ pc' = "print_human"
    /\ UNCHANGED <<args, fs, allowlist_file, tree, allowlist, handle_open,
                   idx, entries_scanned, references, evidence_files, stdout,
                   stderr, json_file, exit_status, run, previous, call, mig, tel>>

(***************************************************************************)
(* print_human_report, emit_json_report and the return of main             *)
(***************************************************************************)
Output(what, rep) == [what |-> what, report |-> rep]

PrintHumanReport ==
    /\ pc = "print_human"
    /\ stdout' = Append(stdout, Output("human", report[1]))
    /\ pc' = "emit_json"
    /\ UNCHANGED <<args, fs, allowlist_file, tree, allowlist, handle_open,
                   idx, entries_scanned, references, evidence_files, report,
                   stderr, json_file, exit_status, run, previous, call, mig, tel>>

EmitJsonReport ==
    /\ pc = "emit_json"
    /\ json_file' = IF args.json_out THEN Some(report[1]) ELSE json_file
    /\ stdout' = Append(stdout, Output("json", report[1]))
    /\ pc' = "return"
    /\ UNCHANGED <<args, fs, allowlist_file, tree, allowlist, handle_open,
                   idx, entries_scanned, references, evidence_files, report,
                   stderr, exit_status, run, previous, call, mig, tel>>

\* return 1 if report["drift_detected"] else 0
ReturnCode(rep) == IF rep.drift_detected THEN 1 ELSE 0

Return ==
    /\ pc = "return"
    /\ exit_status' = Some(ReturnCode(report[1]))
    /\ pc' = "done"
    /\ UNCHANGED <<args, fs, allowlist_file, tree, allowlist, handle_open,
                   idx, entries_scanned, references, evidence_files, report,
                   stdout, stderr, json_file, run, previous, call, mig, tel>>

Next ==
    \/ LoadAllowlist
    \/ OpenMemory
    \/ SkipBlankLine
    \/ RaiseInvalidJson
    \/ RaiseOnRecord
    \/ ProcessRecord
    \/ EndOfExport
    \/ CollectEvidence
    \/ Reconcile
    \/ PrintHumanReport
    \/ EmitJsonReport
    \/ Return

Spec == Init /\ [][Next]_vars

(***************************************************************************)
(* The detector run a second time on the same inputs                       *)
(***************************************************************************)

\* The script is started again once a run has ended: a new process, with
\* the same command line, the same export, allowlist and evidence tree.
\* What the first run printed is kept aside; the --json-out file stays on
\* disk.
Rerun ==
    /\ pc = "done"
    /\ run = "first"
    /\ run' = "second"
    /\ previous' = Some([stdout |-> stdout, json_file |-> json_file])
    /\ pc' = "load_allowlist"
    /\ allowlist' = <<>>
    /\ handle_open' = FALSE
    /\ idx' = 0
    /\ entries_scanned' = 0
    /\ references' = <<>>
    /\ evidence_files' = {}
    /\ report' = None
    /\ stdout' = <<>>
    /\ stderr' = <<>>
    /\ exit_status' = None
    /\ UNCHANGED <<args, fs, allowlist_file, tree, json_file, call, mig, tel>>

NextRerun == Next \/ Rerun

SpecRerun == Init /\ [][NextRerun]_vars

(***************************************************************************)
(* The pure functions called on their own                                  *)
(***************************************************************************)

\* Bound: the longest list of path segments extract_spec_id is called on.
MaxSegments == 3

Segments ==
    {CommandsPart, <<"S","P","E","C","-","1">>, <<"s","p","e","c","-","2">>,
     <<"w">>}

\* The segments joined with slashes.
RECURSIVE JoinSegments(_, _)
JoinSegments(segs, k) ==
    IF k > Len(segs) THEN <<>>
    ELSE IF k = Len(segs) THEN segs[k]
    ELSE segs[k] \o <<"/">> \o JoinSegments(segs, k + 1)

\* Paths extract_spec_id is called on: up to MaxSegments segments, on their
\* own or below the evidence root.
SpecIdPaths ==
    LET lists == UNION {[1..n -> Segments] : n \in 0..MaxSegments}
    IN  {JoinSegments(l, 1) : l \in lists}
        \cup {JoinPath(EVIDENCE_ROOT_DEFAULT, JoinSegments(l, 1)) :
                 l \in lists \ {<<>>}}

\* Raw spans normalise_path is called on: something in front, a body,
\* something behind.
SpanFronts == {<<>>, <<" ">>, <<Backtick>>, <<"\"">>, <<"\t", Backtick>>, <<")">>}

SpanBodies ==
    {<<>>, <<"w">>, EVIDENCE_ROOT_DEFAULT, CiteW, CiteSpec,
     Replace(CiteWW, "/", "\\"),
     JoinPath(<<"x">>, CiteW)}

SpanBacks ==
    {<<>>, <<".">>, <<")", ".">>, <<Backtick>>, <<Backtick, ".">>,
     <<".", Backtick>>, <<" ", ".">>, <<",", " ">>, <<"\"", ";">>,
     <<":", "\n">>}

RawSpans ==
    {front \o body \o back :
        front \in SpanFronts, body \in SpanBodies, back \in SpanBacks}

\* A call: its argument, whether it has returned and with what, and (again)
\* what the function returned when called once more on its own result.
Call(fn, arg) ==
    [fn |-> fn, arg |-> arg, returned |-> FALSE, result |-> None, again |-> None]

Calls ==
    {Call("extract_spec_id", path) : path \in SpecIdPaths}
    \cup {Call("normalise_path", raw) : raw \in RawSpans}

\* One function is about to be called; main does not run.
InitCalls ==
    /\ call \in Calls
    /\ args = [allowlist |-> FALSE, spec_filter |-> None,
               evidence_root |-> EVIDENCE_ROOT_DEFAULT, json_out |-> FALSE]
    /\ fs = [allowlist_exists |-> FALSE, memory_file |-> None,
             evidence_root_exists |-> FALSE]
    /\ allowlist_file = None
    /\ tree = {}
    /\ pc = "idle"
    /\ allowlist = <<>>
    /\ handle_open = FALSE
    /\ idx = 0
    /\ entries_scanned = 0
    /\ references = <<>>
    /\ evidence_files = {}
    /\ report = None
    /\ stdout = <<>>
    /\ stderr = <<>>
    /\ json_file = None
    /\ exit_status = None
    /\ run = "first"
    /\ previous = None
    /\ mig = MigIdle
    /\ tel = TelIdle

MainIdle ==
    UNCHANGED <<args, fs, allowlist_file, tree, pc, allowlist, handle_open,
                idx, entries_scanned, references, evidence_files, report,
                stdout, stderr, json_file, exit_status, run, previous,
                mig, tel>>

CallExtractSpecId ==
    /\ call.fn = "extract_spec_id"
    /\ ~call.returned
    /\ call' = [call EXCEPT !.returned = TRUE,
                            !.result = extract_spec_id(call.arg)]
    /\ MainIdle

CallNormalisePath ==
    /\ call.fn = "normalise_path"
    /\ ~call.returned
    /\ call' = [call EXCEPT !.returned = TRUE,
                            !.result = normalise_path(call.arg)]
    /\ MainIdle

\* normalise_path is called on the path it has just returned.
CallNormalisePathAgain ==
    /\ call.fn = "normalise_path"
    /\ call.returned
    /\ call.result # None
    /\ call.again = None
    /\ call' = [call EXCEPT !.again = Some(normalise_path(call.result[1]))]
    /\ MainIdle

NextCalls == CallExtractSpecId \/ CallNormalisePath \/ CallNormalisePathAgain

SpecCalls == InitCalls /\ [][NextCalls]_vars

(***************************************************************************)
(* scripts/spec-kit/migrate_local_memory.py: one run of main()             *)
(***************************************************************************)

\* The detector's variables, which the other scripts leave alone.
DetectorVars ==
    <<args, fs, allowlist_file, tree, pc, allowlist, handle_open, idx,
      entries_scanned, references, evidence_files, report, stdout, stderr,
      json_file, exit_status, run, previous, call>>

\* The detector is not run and none of its functions is called.
DetectorNotRun ==
    /\ args = [allowlist |-> FALSE, spec_filter |-> None,
               evidence_root |-> EVIDENCE_ROOT_DEFAULT, json_out |-> FALSE]
    /\ fs = [allowlist_exists |-> FALSE, memory_file |-> None,
             evidence_root_exists |-> FALSE]
    /\ allowlist_file = None
    /\ tree = {}
    /\ pc = "idle"
    /\ allowlist = <<>>
    /\ handle_open = FALSE
    /\ idx = 0
    /\ entries_scanned = 0
    /\ references = <<>>
    /\ evidence_files = {}
    /\ report = None
    /\ stdout = <<>>
    /\ stderr = <<>>
    /\ json_file = None
    /\ exit_status = None
    /\ run = "first"
    /\ previous = None
    /\ call = NoCall

\* Bound: the longest list of source entries.
MaxEntries == 3

\* str.lower()
Lower(s) ==
    [i \in 1..Len(s) |->
        IF \E k \in 1..Len(UpperAlpha) : UpperAlpha[k] = s[i]
        THEN LowerAlpha[CHOOSE k \in 1..Len(UpperAlpha) : UpperAlpha[k] = s[i]]
        ELSE s[i]]

\* The domain normalise falls back to.
DefaultDomain == <<"s","p","e","c","-","t","r","a","c","k","e","r">>

DocsDomain == <<"D","o","c","s","-","O","p","s">>

\* One entry of a source file, by the keys main goes by: id and slug are
\* None (absent or null) or Some(text), content says whether the entry has
\* a non-empty content, domain is None or Some(text).  The alternative keys
\* (memory_id, summary, target_domain) are absent.
RawEntry(id, slug, content, domain) ==
    [id |-> id, slug |-> slug, content |-> content, domain |-> domain]

RawEntries ==
    {RawEntry(Some("a"), Some("s"), TRUE, None),
     RawEntry(Some("b"), Some("s"), TRUE, None),
     RawEntry(Some("c"), None, TRUE, Some(DocsDomain)),
     RawEntry(Some("b"), Some(""), TRUE, None),
     RawEntry(Some("d"), Some(""), TRUE, Some(DocsDomain)),
     RawEntry(None, None, TRUE, None),
     RawEntry(Some("e"), None, FALSE, None)}

SourceFiles == UNION {[1..n -> RawEntries] : n \in 0..MaxEntries}

\* str(uuid.uuid4()) for the k-th entry: a text no other entry and no row has.
Uuids == <<"uuid-1", "uuid-2", "uuid-3", "uuid-4", "uuid-5">>

\* A row of the memories table, by its two constrained columns: id (the
\* primary key) and slug (UNIQUE; None is NULL).
Row(id, slug) == [id |-> id, slug |-> slug]

\* The memories table before the run, rows in insertion order.
Tables ==
    {<<>>,
     <<Row("a", Some("s"))>>,
     <<Row("x", Some(""))>>,
     <<Row("b", None), Row("y", Some("s"))>>}

\* The command line: --dry-run, --apply, --domains (None or the values as
\* typed), --out-json given or not.
MigArgsSet ==
    [dry_run : BOOLEAN, apply : BOOLEAN,
     domains : {None, Some({<<"D","O","C","S","-","o","p","s">>})},
     out_json : BOOLEAN]

\* normalise(raw) for the k-th entry, when it has a content.
normalise(raw, k) ==
    [id |-> IF raw.id # None THEN raw.id[1] ELSE Uuids[k],
     slug |-> raw.slug,
     domain |-> IF raw.domain # None THEN raw.domain[1] ELSE DefaultDomain]

\* Lines 138-140: the entries whose domain, lower-cased, is one of the
\* --domains values, lower-cased; all of them without --domains.
DomainAllowed(domains, entry) ==
    domains = None \/ domains[1] = {}
        \/ Lower(entry.domain) \in {Lower(d) : d \in domains[1]}

\* Lines 137-140
EntriesOf(raw_entries, domains) ==
    SelectSeq([k \in 1..Len(raw_entries) |-> normalise(raw_entries[k], k)],
              LAMBDA e : DomainAllowed(domains, e))

RECURSIVE SumOver(_, _)
SumOver(totals, keys) ==
    IF keys = {} THEN 0
    ELSE LET d == CHOOSE x \in keys : TRUE
         IN  totals[d] + SumOver(totals, keys \ {d})

\* summarise(entries): the summary before apply mode adds to it.
summarise(entries) ==
    LET totals == [d \in {entries[k].domain : k \in 1..Len(entries)} |->
                      Cardinality({k \in 1..Len(entries) : entries[k].domain = d})]
    IN  [total |-> SumOver(totals, DOMAIN totals), domains |-> totals,
         inserted |-> None, skipped |-> None]

\* Lines 142-148
MigReport(a, entries) ==
    [mode |-> IF a.dry_run THEN "dry-run" ELSE "apply",
     summary |-> summarise(entries),
     results |-> <<>>]

\* Line 150 with the test left out: the database is opened in every mode.
AfterReportAlwaysApply(a) == "connect"

\* Line 150: where main goes once the report is set up.
AfterReport(a) == IF a.apply THEN "connect" ELSE "emit"

Result(status, entry) ==
    [status |-> status, id |-> entry.id, domain |-> entry.domain, slug |-> entry.slug]

\* "entry.slug and entry.slug in existing_slugs"
SlugExists(entry, existing_slugs) ==
    /\ entry.slug # None
    /\ entry.slug[1] # ""
    /\ entry.slug[1] \in existing_slugs

\* The rows the connection sees: the committed ones and those of its open
\* transaction.
VisibleRows(m) == m.memories \o m.pending

\* The INSERT of lines 192-210 breaks the primary key or UNIQUE(slug): a NULL
\* slug never does, any other slug (the empty text too) does when a row has it.
ViolatesConstraint(rows, entry) ==
    \E r \in 1..Len(rows) :
        \/ rows[r].id = entry.id
        \/ (entry.slug # None /\ rows[r].slug = entry.slug)

\* conn.execute(INSERT) with every statement committed at once.
ExecuteInsertAutocommit(m, entry) ==
    [m EXCEPT !.memories = Append(m.memories, Row(entry.id, entry.slug))]

\* conn.execute(INSERT): sqlite3 opens a transaction before the first INSERT
\* and the row stays in it until commit.
ExecuteInsert(m, entry) ==
    [m EXCEPT !.pending = Append(m.pending, Row(entry.id, entry.slug))]

\* The state of a run that is about to start.
MigStart(a, source, db) ==
    [pc |-> "parse_args", args |-> a, source |-> source, db |-> db,
     sources_read |-> FALSE, entries |-> <<>>, report |-> None,
     conn |-> "none", memories |-> IF db = None THEN <<>> ELSE db[1],
     pending |-> <<>>, existing_ids |-> {}, existing_slugs |-> {},
     inserted |-> 0, skipped |-> 0, i |-> 0, raised |-> None,
     out_file |-> None, printed |-> None, exit |-> None]

\* db is None (no database is found) or Some(table).
InitMigrate ==
    /\ DetectorNotRun
    /\ tel = TelIdle
    /\ \E a \in MigArgsSet, source \in SourceFiles,
          db \in {None} \cup {Some(t) : t \in Tables} :
          mig = MigStart(a, source, db)

\* An exception leaves main: the interpreter prints it and the process ends
\* with status 1.
MigRaise(m, exc) == [m EXCEPT !.raised = Some(exc), !.exit = Some(1), !.pc = "done"]

MigOthersIdle == UNCHANGED <<DetectorVars, tel>>

\* Lines 130-134
MigParseArgs ==
    /\ mig.pc = "parse_args"
    /\ mig' = IF mig.args.dry_run /\ mig.args.apply
              THEN MigRaise(mig, "SystemExit: mutually exclusive")
              ELSE IF ~mig.args.dry_run /\ ~mig.args.apply
              THEN MigRaise(mig, "SystemExit: specify either")
              ELSE [mig EXCEPT !.pc = "load_sources"]
    /\ MigOthersIdle

\* Lines 136-148: the sources are read; normalise raises ValueError on the
\* first entry without content, else the report is set up.
MigLoadSources ==
    /\ mig.pc = "load_sources"
    /\ mig' = IF \E k \in 1..Len(mig.source) : ~mig.source[k].content
              THEN MigRaise([mig EXCEPT !.sources_read = TRUE], "ValueError")
              ELSE LET entries == EntriesOf(mig.source, mig.args.domains)
                   IN  [mig EXCEPT !.sources_read = TRUE,
                                   !.entries = entries,
                                   !.report = Some(MigReport(mig.args, entries)),
                                   !.pc = AfterReport(mig.args)]
    /\ MigOthersIdle

\* Lines 151-152: resolve_database raises FileNotFoundError when there is no
\* database, else the connection is opened.
MigConnect ==
    /\ mig.pc = "connect"
    /\ mig' = IF mig.db = None
              THEN MigRaise(mig, "FileNotFoundError")
              ELSE [mig EXCEPT !.conn = "open", !.pc = "select"]
    /\ MigOthersIdle

\* Lines 154-162
MigSelectExisting ==
    /\ mig.pc = "select"
    /\ mig' = [mig EXCEPT
                  !.existing_ids =
                      {mig.memories[r].id : r \in 1..Len(mig.memories)},
                  !.existing_slugs =
                      {mig.memories[r].slug[1] :
                          r \in {q \in 1..Len(mig.memories) :
                                    mig.memories[q].slug # None}},
                  !.inserted = 0, !.skipped = 0, !.i = 0, !.pc = "loop"]
    /\ MigOthersIdle

MigHasNext == mig.pc = "loop" /\ mig.i < Len(mig.entries)

MigEntry == mig.entries[mig.i + 1]

AppendResult(m, status, entry) ==
    [m EXCEPT !.report = Some([m.report[1] EXCEPT
                                  !.results = Append(@, Result(status, entry))])]

\* Lines 164-174
MigSkipExistingId ==
    /\ MigHasNext
    /\ MigEntry.id \in mig.existing_ids
    /\ mig' = [AppendResult(mig, "skipped_existing_id", MigEntry) EXCEPT
                  !.skipped = @ + 1, !.i = @ + 1]
    /\ MigOthersIdle

\* Lines 176-186
MigSkipExistingSlug ==
    /\ MigHasNext
    /\ MigEntry.id \notin mig.existing_ids
    /\ SlugExists(MigEntry, mig.existing_slugs)
    /\ mig' = [AppendResult(mig, "skipped_existing_slug", MigEntry) EXCEPT
                  !.skipped = @ + 1, !.i = @ + 1]
    /\ MigOthersIdle

MigInsertReached ==
    /\ MigHasNext
    /\ MigEntry.id \notin mig.existing_ids
    /\ ~SlugExists(MigEntry, mig.existing_slugs)

\* Lines 188-223: the INSERT succeeds.
MigInsert ==
    /\ MigInsertReached
    /\ ~ViolatesConstraint(VisibleRows(mig), MigEntry)
    /\ mig' = [AppendResult(ExecuteInsert(mig, MigEntry), "inserted", MigEntry) EXCEPT
                  !.existing_ids = @ \cup {MigEntry.id},
                  !.existing_slugs =
                      IF MigEntry.slug # None /\ MigEntry.slug[1] # ""
                      THEN @ \cup {MigEntry.slug[1]} ELSE @,
                  !.inserted = @ + 1, !.i = @ + 1]
    /\ MigOthersIdle

\* Lines 192-210: the INSERT raises sqlite3.IntegrityError, which leaves the
\* try block for the finally clause.
MigInsertRaises ==
    /\ MigInsertReached
    /\ ViolatesConstraint(VisibleRows(mig), MigEntry)
    /\ mig' = [mig EXCEPT !.raised = Some("IntegrityError"), !.pc = "close"]
    /\ MigOthersIdle

\* Lines 225-230: the loop is over.
MigCommit ==
    /\ mig.pc = "loop"
    /\ mig.i = Len(mig.entries)
    /\ mig' = [mig EXCEPT
                  !.memories = mig.memories \o mig.pending,
                  !.pending = <<>>,
                  !.report = Some([mig.report[1] EXCEPT
                                      !.summary.inserted = Some(mig.inserted),
                                      !.summary.skipped = Some(mig.skipped)]),
                  !.pc = "close"]
    /\ MigOthersIdle

\* Lines 231-232: conn.close() drops what was not committed; an exception
\* on its way goes on and ends the run.
MigClose ==
    /\ mig.pc = "close"
    /\ mig' = [mig EXCEPT !.conn = "closed", !.pending = <<>>,
                          !.exit = IF mig.raised # None THEN Some(1) ELSE @,
                          !.pc = IF mig.raised # None THEN "done" ELSE "emit"]
    /\ MigOthersIdle

\* Lines 234-237
MigEmit ==
    /\ mig.pc = "emit"
    /\ mig' = IF mig.args.out_json
              THEN [mig EXCEPT !.out_file = mig.report, !.pc = "return"]
              ELSE [mig EXCEPT !.printed = mig.report, !.pc = "return"]
    /\ MigOthersIdle

\* Line 239
MigReturn ==
    /\ mig.pc = "return"
    /\ mig' = [mig EXCEPT !.exit = Some(0), !.pc = "done"]
    /\ MigOthersIdle

NextMigrate ==
    \/ MigParseArgs
    \/ MigLoadSources
    \/ MigConnect
    \/ MigSelectExisting
    \/ MigSkipExistingId
    \/ MigSkipExistingSlug
    \/ MigInsert
    \/ MigInsertRaises
    \/ MigCommit
    \/ MigClose
    \/ MigEmit
    \/ MigReturn

SpecMigrate == InitMigrate /\ [][NextMigrate]_vars

(***************************************************************************)
(* scripts/spec_ops_004/telemetry_utils.py: cmd_write_telemetry, called    *)
(* several times on the same telemetry file                                *)
(***************************************************************************)

\* Bound: the number of calls of cmd_write_telemetry.
MaxCalls == 2

\* A metrics file as read_text and json.loads find it: kind "missing" (no
\* such file), "invalid" (not JSON), "nonobject" (JSON, not an object) or
\* "object" with the keys the command reads, each None (absent or null) or
\* Some(value).
MetricsData(kind, status, total_tokens, latency_ms, output_path) ==
    [kind |-> kind, status |-> status, total_tokens |-> total_tokens,
     latency_ms |-> latency_ms, cost_usd |-> None, output_path |-> output_path]

MetricsFileSet ==
    {MetricsData("missing", None, None, None, None),
     MetricsData("invalid", None, None, None, None),
     MetricsData("nonobject", None, None, None, None),
     MetricsData("object", Some("ok"), Some(180), Some(1000), Some("/tmp/o1.json")),
     MetricsData("object", Some("error"), None, Some(5), Some("/tmp/o2.json")),
     MetricsData("object", Some("ok"), Some(20), None, None)}

\* A synthesis file: kind as for a metrics file; for an object, status is
\* None or Some(text) and consensus is "absent", "null" or "object" with
\* its agreements and conflicts.
SynthesisData(kind, status, consensus, agreements, conflicts) ==
    [kind |-> kind, status |-> status, consensus |-> consensus,
     agreements |-> agreements, conflicts |-> conflicts]

SynthesisFileSet ==
    {SynthesisData("missing", None, "absent", <<>>, <<>>),
     SynthesisData("invalid", None, "absent", <<>>, <<>>),
     SynthesisData("nonobject", None, "absent", <<>>, <<>>),
     SynthesisData("object", Some("ok"), "null", <<>>, <<>>),
     SynthesisData("object", None, "absent", <<>>, <<>>),
     SynthesisData("object", Some("ok"), "object", <<"step">>, <<>>),
     SynthesisData("object", Some("conflict"), "object", <<>>, <<"order">>)}

\* The arguments of one call: --timestamp is the number of the call, the
\* --metrics-file list names one or two files, given here by what they hold.
WriteArgsSet(n) ==
    [timestamp : {n},
     metrics_file : [1..1 -> MetricsFileSet] \cup [1..2 -> MetricsFileSet],
     synthesis : SynthesisFileSet]

\* A line some other writer left in the telemetry file.
ForeignLine == [schemaVersion |-> "1.0", timestamp |-> 0]

\* The telemetry file before the first call: None (absent) or Some(lines).
TelemetryFiles == {None, Some(<<>>), Some(<<ForeignLine>>)}

\* _sum_optional(items, key): None when no item has the key
RECURSIVE SumValues(_, _, _)
SumValues(items, key, k) ==
    IF k > Len(items) THEN 0
    ELSE (IF items[k][key] = None THEN 0 ELSE items[k][key][1])
         + SumValues(items, key, k + 1)

sum_optional(items, key) ==
    IF \A k \in 1..Len(items) : items[k][key] = None THEN None
    ELSE Some(SumValues(items, key, 1))

\* Lines 206-263: the record of a call, from what it has read.  The keys
\* that repeat an argument or hold a fixed value are left out.
TelemetryRecord(a, agent_payloads, synthesis_payload) ==
    LET consensus_status ==
            IF synthesis_payload.status = None THEN "unknown"
            ELSE synthesis_payload.status[1]
        conflicts == synthesis_payload.conflicts
    IN  [schemaVersion |-> "2.0",
         timestamp |-> a.timestamp,
         sessionId |-> a.timestamp,
         artifacts |-> [k \in 1..Len(agent_payloads) |->
                           agent_payloads[k].output_path[1]]
                       \o <<"synthesis.json">>,
         consensus |->
            [status |-> consensus_status,
             agreements |-> synthesis_payload.agreements,
             conflicts |-> conflicts,
             agents |-> agent_payloads,
             disagreement_detected |->
                 \/ conflicts # <<>>
                 \/ \E k \in 1..Len(agent_payloads) :
                       agent_payloads[k].status # Some("ok"),
             total_tokens |-> sum_optional(agent_payloads, "total_tokens"),
             total_latency_ms |-> sum_optional(agent_payloads, "latency_ms"),
             total_cost_usd |-> sum_optional(agent_payloads, "cost_usd")],
         consensusStatus |-> consensus_status]

\* Lines 206-243 raise on what was read: .get on a synthesis payload that is
\* not an object or on a null consensus, .get on a metrics payload that is
\* not an object (AttributeError), a metrics payload without output_path
\* (KeyError).
RecordRaises(agent_payloads, synthesis_payload) ==
    \/ synthesis_payload.kind = "nonobject"
    \/ synthesis_payload.consensus = "null"
    \/ \E k \in 1..Len(agent_payloads) :
          \/ agent_payloads[k].kind = "nonobject"
          \/ agent_payloads[k].output_path = None

\* open(..., "w"): the file is emptied before the line is written.
OpenTruncating(file) == <<>>

\* open(..., "a"): what the file holds stays, a missing file is created.
OpenAppending(file) == IF file = None THEN <<>> ELSE file[1]

\* No call is under way; before is the telemetry file as it was before the
\* first call, calls says how many calls were made, outcomes what each of
\* them did: None (it raised) or Some(the record it wrote).
TelBetweenCalls(before, file, calls, outcomes) ==
    [pc |-> "between_calls", before |-> before, telemetry_file |-> file,
     calls |-> calls,
     outcomes |-> outcomes, args |-> None, agent_payloads |-> <<>>,
     synthesis_payload |-> None]

InitTelemetry ==
    /\ DetectorNotRun
    /\ mig = MigIdle
    /\ \E file \in TelemetryFiles : tel = TelBetweenCalls(file, file, 0, <<>>)

TelOthersIdle == UNCHANGED <<DetectorVars, mig>>

\* An exception leaves cmd_write_telemetry.
TelRaise ==
    TelBetweenCalls(tel.before, tel.telemetry_file, tel.calls,
                    Append(tel.outcomes, None))

\* Lines 196-200
CallWriteTelemetry ==
    /\ tel.pc = "between_calls"
    /\ tel.calls < MaxCalls
    /\ \E a \in WriteArgsSet(tel.calls + 1) :
          tel' = [tel EXCEPT !.pc = "read_metrics", !.calls = @ + 1,
                             !.args = Some(a)]
    /\ TelOthersIdle

TelNextMetrics == tel.args[1].metrics_file[Len(tel.agent_payloads) + 1]

\* Lines 201-203, one file of the list
ReadMetricsFile ==
    /\ tel.pc = "read_metrics"
    /\ Len(tel.agent_payloads) < Len(tel.args[1].metrics_file)
    /\ tel' = IF TelNextMetrics.kind \in {"missing", "invalid"}
              THEN TelRaise
              ELSE [tel EXCEPT !.agent_payloads = Append(@, TelNextMetrics)]
    /\ TelOthersIdle

\* Line 205
ReadSynthesis ==
    /\ tel.pc = "read_metrics"
    /\ Len(tel.agent_payloads) = Len(tel.args[1].metrics_file)
    /\ tel' = IF tel.args[1].synthesis.kind \in {"missing", "invalid"}
              THEN TelRaise
              ELSE [tel EXCEPT !.synthesis_payload = Some(tel.args[1].synthesis),
                               !.pc = "build_record"]
    /\ TelOthersIdle

\* Lines 206-267: the record is built and appended to the file.
WriteRecord ==
    /\ tel.pc = "build_record"
    /\ tel' = IF RecordRaises(tel.agent_payloads, tel.synthesis_payload[1])
              THEN TelRaise
              ELSE LET record == TelemetryRecord(tel.args[1], tel.agent_payloads,
                                                 tel.synthesis_payload[1])
                   IN  TelBetweenCalls(
                           tel.before,
                           Some(Append(OpenAppending(tel.telemetry_file), record)),
                           tel.calls, Append(tel.outcomes, Some(record)))
    /\ TelOthersIdle

NextTelemetry ==
    \/ CallWriteTelemetry
    \/ ReadMetricsFile
    \/ ReadSynthesis
    \/ WriteRecord

SpecTelemetry == InitTelemetry /\ [][NextTelemetry]_vars

(***************************************************************************)
(* scripts/spec_ops_004/telemetry_utils.py: one call of cmd_extract_agent  *)
(***************************************************************************)

\* MODEL_PRICING, in millionths of a dollar per token (0.010 and 0.030
\* dollars per thousand tokens for gpt-5); a model without an entry has none.
MODEL_PRICING(model_id) ==
    IF model_id = "gpt-5" THEN Some([prompt |-> 10, completion |-> 30]) ELSE None

\* One line of the events log: kind "invalid" (skipped by _load_json_lines),
\* "nonobject", or "object"; an object carries its usage block at the key
\* usage (at = "usage"), below response of a response.completed event
\* (at = "response"), or not at all (at = "none").  The token counts are
\* None or Some(number), cached is details.cached_tokens.
EventLine(kind, at, input_tokens, output_tokens, total_tokens, cached) ==
    [kind |-> kind, at |-> at, input_tokens |-> input_tokens,
     output_tokens |-> output_tokens, total_tokens |-> total_tokens,
     cached |-> cached]

EventInvalid == EventLine("invalid", "none", None, None, None, None)

EventDelta == EventLine("object", "none", None, None, None, None)

EventCompleted == EventLine("object", "response", Some(120), Some(80), Some(200), Some(0))

EventUsageZero == EventLine("object", "usage", Some(0), None, None, Some(5))

EventList == EventLine("nonobject", "none", None, None, None, None)

\* The events log: None (no such file) or Some(lines).
EventLogs ==
    {None, Some(<<>>), Some(<<EventDelta, EventCompleted>>),
     Some(<<EventInvalid, EventUsageZero>>),
     Some(<<EventUsageZero, EventCompleted>>),
     Some(<<EventList, EventCompleted, EventUsageZero>>)}

\* The agent output file: kind "missing", "invalid", "nonobject" or
\* "object"; error is the value at the key error of an object: "absent",
\* "falsy" (null, empty text, zero) or "truthy".
OutputFiles ==
    {[kind |-> "missing", error |-> "absent"],
     [kind |-> "invalid", error |-> "absent"],
     [kind |-> "nonobject", error |-> "absent"],
     [kind |-> "object", error |-> "absent"],
     [kind |-> "object", error |-> "falsy"],
     [kind |-> "object", error |-> "truthy"]}

ExtractArgsSet ==
    [exec_status : {0, 3}, model_id : {"gpt-5", "local-model"},
     latency_ms : {None, Some(1234)}]

UsageMetrics(prompt_tokens, completion_tokens, total_tokens, cache_hit) ==
    [prompt_tokens |-> prompt_tokens, completion_tokens |-> completion_tokens,
     total_tokens |-> total_tokens, cache_hit |-> cache_hit]

\* Python's "a or b" on optional numbers: a when it is a number other than
\* zero, else b.
OrElse(a, b) == IF a # None /\ a[1] # 0 THEN a ELSE b

\* Lines 88-121: the usage after the events from the k-th on.
RECURSIVE UsageFrom(_, _, _)
UsageFrom(events, k, usage) ==
    IF k > Len(events) THEN usage
    ELSE LET event == events[k]
         IN  IF event.kind # "object" \/ event.at = "none"
             THEN UsageFrom(events, k + 1, usage)
             ELSE UsageFrom(events, k + 1,
                    UsageMetrics(
                        OrElse(usage.prompt_tokens, event.input_tokens),
                        OrElse(usage.completion_tokens, event.output_tokens),
                        OrElse(usage.total_tokens, event.total_tokens),
                        IF event.cached # None THEN Some(event.cached[1] > 0)
                        ELSE usage.cache_hit))

\* _extract_usage(events_path) for a log that can be read; lines that are
\* not JSON are skipped.
extract_usage(events) ==
    UsageFrom(SelectSeq(events, LAMBDA e : e.kind # "invalid"), 1,
              UsageMetrics(None, None, None, None))

\* _cost_from_usage(model_id, usage), in millionths of a dollar
cost_from_usage(model_id, usage) ==
    LET pricing == MODEL_PRICING(model_id)
        prompt_tokens == IF usage.prompt_tokens = None THEN 0 ELSE usage.prompt_tokens[1]
        completion_tokens ==
            IF usage.completion_tokens = None THEN 0 ELSE usage.completion_tokens[1]
    IN  IF pricing = None THEN None
        ELSE IF prompt_tokens = 0 /\ completion_tokens = 0 THEN None
        ELSE Some(prompt_tokens * pricing[1].prompt
                  + completion_tokens * pricing[1].completion)

\* Lines 151-160: error_message
ErrorMessage(exec_status, output) ==
    IF exec_status # 0 THEN Some("agent exited with status")
    ELSE IF output.kind \in {"missing", "invalid"}
    THEN Some("failed to read output JSON")
    ELSE IF output.kind = "object" /\ output.error = "truthy"
    THEN Some("payload error")
    ELSE None

\* AgentMetrics.to_json
to_json(a, usage, cost, error) ==
    [latency_ms |-> a.latency_ms,
     prompt_tokens |-> usage.prompt_tokens,
     completion_tokens |-> usage.completion_tokens,
     total_tokens |-> usage.total_tokens,
     cache_hit |-> usage.cache_hit,
     cost_usd |-> cost,
     status |-> IF a.exec_status = 0 /\ error = None THEN "ok" ELSE "error",
     error |-> error]

InitExtract ==
    /\ DetectorNotRun
    /\ mig = MigIdle
    /\ \E a \in ExtractArgsSet, events \in EventLogs, output \in OutputFiles :
          tel = [pc |-> "extract_usage", args |-> a, events |-> events,
                 output |-> output, usage |-> None, cost |-> None,
                 error_message |-> None, metrics_file |-> None,
                 raised |-> None]

\* Lines 144-149: _extract_usage opens the events log, which raises
\* FileNotFoundError when there is none; nothing catches it.
ExtractUsage ==
    /\ tel.pc = "extract_usage"
    /\ tel' = IF tel.events = None
              THEN [tel EXCEPT !.raised = Some("FileNotFoundError"), !.pc = "done"]
              ELSE LET usage == extract_usage(tel.events[1])
                   IN  [tel EXCEPT !.usage = Some(usage),
                                   !.cost = cost_from_usage(tel.args.model_id, usage),
                                   !.pc = "read_output"]
    /\ TelOthersIdle

\* Lines 151-160
ReadOutput ==
    /\ tel.pc = "read_output"
    /\ tel' = [tel EXCEPT !.error_message = ErrorMessage(tel.args.exec_status, tel.output),
                          !.pc = "write_metrics"]
    /\ TelOthersIdle

\* Lines 162-175
WriteMetrics ==
    /\ tel.pc = "write_metrics"
    /\ tel' = [tel EXCEPT
                  !.metrics_file = Some(to_json(tel.args, tel.usage[1], tel.cost,
                                                tel.error_message)),
                  !.pc = "done"]
    /\ TelOthersIdle

NextExtract == ExtractUsage \/ ReadOutput \/ WriteMetrics

SpecExtract == InitExtract /\ [][NextExtract]_vars

(***************************************************************************)
(* Vocabulary of the properties                                            *)
(***************************************************************************)
HasReport == report # None

Rep == report[1]

MissingMemoryPaths == {Rep.missing_memory[k].path : k \in 1..Len(Rep.missing_memory)}

MissingEvidencePaths == {Rep.missing_evidence[k].path : k \in 1..Len(Rep.missing_evidence)}

Finished == pc = "done"

\* build_report has just returned its report; no later step changes the
\* report, the reference index or the evidence set.
ReportBuilt == pc = "print_human"

\* The spec id of a path, GLOBAL when it has none.
SpecIdOrGlobal(path) ==
    IF extract_spec_id(path) = None THEN GLOBAL_SPEC ELSE extract_spec_id(path)[1]

\* Some loaded pattern glob-matches the path or its spec id (GLOBAL when none).
Suppressed(path) ==
    \E k \in 1..Len(allowlist) :
        \/ fnmatch(path, allowlist[k])
        \/ fnmatch(IF extract_spec_id(path) = None THEN GLOBAL_SPEC
                   ELSE extract_spec_id(path)[1],
                   allowlist[k])

StrictlyAscending(paths) ==
    \A i, j \in 1..Len(paths) : i < j => StrLess(paths[i], paths[j])

ExportLines == IF fs.memory_file = None THEN <<>> ELSE fs.memory_file[1]

\* A line that is a JSON object whose content is a string (or absent).
IsUsableRecord(line) == line.kind = "object" /\ line.has # "other"

\* The numbers of the lines read so far whose content cites path, as the
\* extraction of the code sees it.
CitedBy(line) ==
    LET matches == MatchesOf(ContentOf(line), spec_filter)
    IN  {matches[m] : m \in 1..Len(matches)}

\* collect_memory_references is scanning, or has just returned.
Scanning == pc \in {"read_lines", "collect_evidence"}

CitingLines(path) ==
    {k \in 1..idx : IsUsableRecord(ExportLines[k]) /\ path \in CitedBy(ExportLines[k])}

NonBlankUpTo(n) == {k \in 1..n : ExportLines[k].kind # "blank"}

AllowlistMissing == args.allowlist /\ ~fs.allowlist_exists

MemoryMissing == fs.memory_file = None

EvidenceRootMissing == ~fs.evidence_root_exists

Said(kind) == \E m \in 1..Len(stderr) : stderr[m].kind = kind

NothingEmitted == stdout = <<>> /\ json_file = None

\* collect_memory_references, collect_evidence_files or the reconciliation
\* is under way, or build_report has just returned.
BuildingReport == pc \in {"read_lines", "collect_evidence", "reconcile", "print_human"}

\* main holds a non-empty spec filter.
FilterActive == args.spec_filter # None /\ args.spec_filter[1] # <<>>

\* The path has a spec id and it is one of the --spec values, letter case
\* aside.
InFilter(path) ==
    /\ extract_spec_id(path) # None
    /\ \E k \in 1..Len(args.spec_filter[1]) :
          Upper(args.spec_filter[1][k]) = Upper(extract_spec_id(path)[1])

\* The citations the extraction finds in a record and normalise_path accepts,
\* before any filtering.
NormalisedSpans(line) ==
    LET found == FindIter(ContentOf(line), 1)
    IN  {normalise_path(found[m])[1] :
            m \in {n \in 1..Len(found) : normalise_path(found[n]) # None}}

\* The JSON reports among what was printed on standard output.
JsonPrinted(out) == SelectSeq(out, LAMBDA o : o.what = "json")

\* emit_json_report has returned in this run.
JsonEmitted == HasReport /\ pc \in {"return", "done"}

\* The characters a citation may be made of after the evidence-root prefix:
\* letters, digits, dot, slash, hyphen, underscore.
PathSafe ==
    {LowerAlpha[k] : k \in 1..Len(LowerAlpha)}
    \cup {UpperAlpha[k] : k \in 1..Len(UpperAlpha)}
    \cup {"0", "1", "2", "3", "4", "5", "6", "7", "8", "9"}
    \cup {".", "/", "-", "_"}

\* A citation starts at i: the prefix, then at least one path-safe character.
CitationAt(content, i) ==
    /\ StartsWithAt(content, i, EVIDENCE_REGEX_PREFIX)
    /\ i + Len(EVIDENCE_REGEX_PREFIX) <= Len(content)
    /\ content[i + Len(EVIDENCE_REGEX_PREFIX)] \in PathSafe

\* Last index of the run of path-safe characters that starts at i.
PathSafeRunEnd(s, i) ==
    LET stop == CHOOSE k \in i..(Len(s) + 1) :
                    /\ k > Len(s) \/ s[k] \notin PathSafe
                    /\ \A j \in i..(k - 1) : s[j] \in PathSafe
    IN  stop - 1

\* The non-overlapping citations of a text, leftmost first, each as long as
\* possible.
RECURSIVE CitationsFrom(_, _, _)
CitationsFrom(content, starts, i) ==
    LET later == {j \in starts : j >= i}
    IN  IF later = {} THEN <<>>
        ELSE LET first == Min(later)
                 last == PathSafeRunEnd(content, first + Len(EVIDENCE_REGEX_PREFIX))
             IN  <<SubSeq(content, first, last)>>
                 \o CitationsFrom(content, starts, last + 1)

CitationSpans(content) ==
    CitationsFrom(content, {j \in 1..Len(content) : CitationAt(content, j)}, 1)

\* The paths a record cites: its citations, normalised, those that
\* normalisation rejects left out.
CitedPaths(line) ==
    LET spans == CitationSpans(ContentOf(line))
    IN  {normalise_path(spans[m])[1] :
            m \in {n \in 1..Len(spans) : normalise_path(spans[n]) # None}}

\* The paths cited by the records of the whole export.
AllCitedPaths ==
    UNION {CitedPaths(ExportLines[k]) :
              k \in {n \in 1..Len(ExportLines) : IsUsableRecord(ExportLines[n])}}

\* The path lies under the evidence root the run was given, written as the
\* scan writes paths (relative to the repository root when inside it).
UnderConfiguredRoot(path) ==
    StartsWith(path, relative_path(evidence_root, RepoRoot) \o <<"/">>)

\* The spec id of a path as derived from one segment equal to commands, the
\* first one: the segment after it when there is one and it starts with
\* SPEC-, letter case aside; GLOBAL in every other case.
SpecIdAfterCommands(path) ==
    LET parts == PathParts(path)
        found == {i \in 1..Len(parts) : parts[i] = CommandsPart}
    IN  IF found = {} THEN GLOBAL_SPEC
        ELSE IF Min(found) = Len(parts) THEN GLOBAL_SPEC
        ELSE IF StartsWith(Upper(parts[Min(found) + 1]), SpecPrefix)
        THEN parts[Min(found) + 1]
        ELSE GLOBAL_SPEC

\* extract_spec_id has been called on its own and has returned.
Returned(fn) == call.fn = fn /\ call.returned

\* Whitespace and the punctuation that normalisation trims.
TrimSet == Whitespace \cup {Backtick, "\"", ")", ".", ",", ":", ";"}

\* A raw span with the surrounding whitespace and punctuation trimmed and
\* the separators turned into forward slashes.
Trimmed(raw) == Replace(Strip(raw, TrimSet), "\\", "/")

\* The patterns of an allowlist file: its lines from the k-th on, without
\* the surrounding whitespace, blank lines and lines that begin with #
\* left out.
RECURSIVE PatternLines(_, _)
PatternLines(raw_lines, k) ==
    IF k > Len(raw_lines) THEN <<>>
    ELSE LET line == Strip(raw_lines[k], Whitespace)
         IN  (IF line = <<>> \/ line[1] = "#" THEN <<>> ELSE <<line>>)
             \o PatternLines(raw_lines, k + 1)

\* The patterns the run has to go by: those of the allowlist file when one
\* was given, none otherwise.
PatternsGiven ==
    IF allowlist_file = None THEN <<>> ELSE PatternLines(allowlist_file[1], 1)

\* Some pattern given glob-matches the path or its spec id.
MatchedByPattern(path) ==
    \E k \in 1..Len(PatternsGiven) :
        \/ fnmatch(path, PatternsGiven[k])
        \/ fnmatch(SpecIdOrGlobal(path), PatternsGiven[k])

\* The allowlist has been loaded.
AllowlistLoaded == pc \notin {"load_allowlist", "idle"} /\ ~AllowlistMissing

\* The migration runs in apply mode and has set up its report.
MigApplyMode == mig.args.apply /\ ~mig.args.dry_run /\ mig.report # None

MigResults == mig.report[1].results

MigSummary == mig.report[1].summary

\* The table as it was before the run.
TableBefore == IF mig.db = None THEN <<>> ELSE mig.db[1]

\* The entries before the k-th that the run inserted.
InsertedBefore(k) == {j \in 1..(k - 1) : MigResults[j].status = "inserted"}

\* The ids in the table before the run or inserted before the k-th entry.
IdsBefore(k) ==
    {TableBefore[r].id : r \in 1..Len(TableBefore)}
    \cup {mig.entries[j].id : j \in InsertedBefore(k)}

\* The slugs (NULL aside) in the table before the run or inserted before
\* the k-th entry.
SlugsBefore(k) ==
    {TableBefore[r].slug : r \in 1..Len(TableBefore)}
    \cup {mig.entries[j].slug : j \in InsertedBefore(k)}

\* The status the k-th entry is to get.
StatusDue(k) ==
    IF mig.entries[k].id \in IdsBefore(k) THEN "skipped_existing_id"
    ELSE IF /\ mig.entries[k].slug \notin {None, Some("")}
            /\ mig.entries[k].slug \in SlugsBefore(k)
    THEN "skipped_existing_slug"
    ELSE "inserted"

\* The source entries that pass the domain filter, by position.
PassingDomainFilter ==
    {k \in 1..Len(mig.source) :
        \/ mig.args.domains = None
        \/ \E d \in mig.args.domains[1] :
              Lower(d) = Lower(IF mig.source[k].domain = None THEN DefaultDomain
                               ELSE mig.source[k].domain[1])}

\* The run has ended after it had opened the database.
MigEndedAfterConnect == mig.pc = "done" /\ mig.conn = "closed"

\* The domain of a source entry as normalise gives it.
DomainOfSource(k) ==
    IF mig.source[k].domain = None THEN DefaultDomain ELSE mig.source[k].domain[1]

\* The report the run has written or printed, None when it has emitted none.
MigEmitted == IF mig.out_file # None THEN mig.out_file ELSE mig.printed

\* The records the calls made so far have written, in call order.
RecordsWritten ==
    LET done == SelectSeq(tel.outcomes, LAMBDA o : o # None)
    IN  [k \in 1..Len(done) |-> done[k][1]]

\* The lines of the telemetry file before the first call.
LinesBefore == IF tel.before = None THEN <<>> ELSE tel.before[1]

\* The agent output file was read and parsed, and what it holds is not an
\* object with a truthy error.
OutputClean ==
    /\ tel.output.kind \in {"object", "nonobject"}
    /\ ~(tel.output.kind = "object" /\ tel.output.error = "truthy")

\* The call of cmd_extract_agent has ended.
ExtractEnded == tel.pc = "done"

\* The numbers of the export lines that are not JSON.
InvalidLines == {k \in 1..Len(ExportLines) : ExportLines[k].kind = "invalid"}

\* The first failure in the order allowlist file, memory export (existence,
\* then its lines top to bottom), evidence root; "none" when there is none.
FirstFailure ==
    IF AllowlistMissing THEN "AllowlistNotFound"
    ELSE IF MemoryMissing THEN "MemoryNotFound"
    ELSE IF InvalidLines # {} THEN "InvalidJSON"
    ELSE IF EvidenceRootMissing THEN "EvidenceNotFound"
    ELSE "none"

\* The elements of a finite set of numbers in increasing order.
RECURSIVE Ascending(_)
Ascending(S) ==
    IF S = {} THEN <<>>
    ELSE LET m == CHOOSE x \in S : \A y \in S : x <= y
         IN  <<m>> \o Ascending(S \ {m})

(***************************************************************************)
(* C1  Symmetry: in every report built, a path that is both a key of the   *)
(* reference index and a member of the evidence set is in neither          *)
(* missing_memory nor missing_evidence.                                    *)
(***************************************************************************)
C1_Symmetry ==
    ReportBuilt =>
        \A path \in Keys(references) \cap evidence_files :
            path \notin MissingMemoryPaths /\ path \notin MissingEvidencePaths

\* A report built while a cited file exists and another does not.
C1_Witness ==
    /\ HasReport
    /\ Keys(references) \cap evidence_files # {}
    /\ Rep.drift_detected

(***************************************************************************)
(* C2  Allowlist suppression: in every report, a path that some allowlist  *)
(* pattern matches (by full path or by spec id) is in neither drift list,  *)
(* whether it is cited, on disk, both or one of the two; and when every    *)
(* discrepancy is such a path, drift_detected is false.                    *)
(***************************************************************************)
C2_AllowlistSuppression ==
    ReportBuilt =>
        /\ \A path \in Keys(references) \cup evidence_files :
              Suppressed(path) =>
                  path \notin MissingMemoryPaths /\ path \notin MissingEvidencePaths
        /\ (\A path \in (Keys(references) \cup evidence_files)
                            \ (Keys(references) \cap evidence_files) : Suppressed(path))
              => ~Rep.drift_detected

\* An uncited evidence file, suppressed through its spec id, is the only
\* discrepancy and the report says no drift.
C2_Witness ==
    /\ HasReport
    /\ \E path \in evidence_files \ Keys(references) :
          /\ Suppressed(path)
          /\ \A k \in 1..Len(allowlist) : ~fnmatch(path, allowlist[k])
    /\ ~Rep.drift_detected

(***************************************************************************)
(* C3  missing_memory lists exactly the evidence files that are not keys   *)
(* of the reference index and not suppressed, each once, ascending by      *)
(* path, each with its spec id (GLOBAL when none); a run that ends with a  *)
(* non-empty missing_memory ends with status 1.                            *)
(***************************************************************************)
C3_MissingMemoryExact ==
    /\ ReportBuilt =>
        /\ MissingMemoryPaths =
              {path \in evidence_files : path \notin Keys(references) /\ ~Suppressed(path)}
        /\ Len(Rep.missing_memory) = Cardinality(MissingMemoryPaths)
        /\ StrictlyAscending([k \in 1..Len(Rep.missing_memory) |-> Rep.missing_memory[k].path])
        /\ \A k \in 1..Len(Rep.missing_memory) :
              Rep.missing_memory[k].spec =
                  IF extract_spec_id(Rep.missing_memory[k].path) = None THEN GLOBAL_SPEC
                  ELSE extract_spec_id(Rep.missing_memory[k].path)[1]
    /\ (Finished /\ HasReport /\ Rep.missing_memory # <<>>) => exit_status = Some(1)

\* A finished run whose missing_memory has several entries, one of them
\* without a spec segment, while another evidence file is cited.
C3_Witness ==
    /\ HasReport
    /\ Finished
    /\ Len(Rep.missing_memory) >= 2
    /\ \E k \in 1..Len(Rep.missing_memory) : Rep.missing_memory[k].spec # GLOBAL_SPEC
    /\ evidence_files \cap Keys(references) # {}
    /\ exit_status = Some(1)

(***************************************************************************)
(* C4  missing_evidence lists exactly the keys of the reference index      *)
(* that are not evidence files and not suppressed, each once, ascending    *)
(* by path, each with its spec id and with all the citing records the      *)
(* index holds for it (id, slug, summary), in the order of the index.      *)
(***************************************************************************)
C4_MissingEvidenceExact ==
    ReportBuilt =>
        /\ MissingEvidencePaths =
              {path \in Keys(references) : path \notin evidence_files /\ ~Suppressed(path)}
        /\ Len(Rep.missing_evidence) = Cardinality(MissingEvidencePaths)
        /\ StrictlyAscending([k \in 1..Len(Rep.missing_evidence) |->
                                 Rep.missing_evidence[k].path])
        /\ \A k \in 1..Len(Rep.missing_evidence) :
              LET entry == Rep.missing_evidence[k]
                  held  == RefsOf(references, entry.path)
              IN  /\ entry.spec = IF extract_spec_id(entry.path) = None THEN GLOBAL_SPEC
                                  ELSE extract_spec_id(entry.path)[1]
                  /\ Len(entry.memories) = Len(held)
                  /\ \A j \in 1..Len(held) :
                        /\ entry.memories[j].id = held[j].memory_id
                        /\ entry.memories[j].slug = held[j].slug
                        /\ entry.memories[j].summary = held[j].summary

\* Two missing paths, inserted in the index in descending order, one of
\* them cited by two records.
C4_Witness ==
    /\ HasReport
    /\ Len(Rep.missing_evidence) >= 2
    /\ \E k \in 1..Len(Rep.missing_evidence) : Len(Rep.missing_evidence[k].memories) >= 2
    /\ Len(references) >= 2
    /\ StrLess(references[2].path, references[1].path)

(***************************************************************************)
(* C5  In every report drift_detected is true exactly when one of the two  *)
(* drift lists is not empty, and a run that produced a report ends with    *)
(* status 1 when drift_detected is true and with status 0 when it is       *)
(* false.                                                                   *)
(***************************************************************************)
C5_DriftFlagAndExitStatus ==
    HasReport =>
        /\ Rep.drift_detected <=> (Rep.missing_memory # <<>> \/ Rep.missing_evidence # <<>>)
        /\ Finished => exit_status = Some(IF Rep.drift_detected THEN 1 ELSE 0)

\* A finished run whose only drift is a missing evidence file.
C5_Witness ==
    /\ HasReport
    /\ Finished
    /\ Rep.missing_memory = <<>>
    /\ Rep.missing_evidence # <<>>
    /\ exit_status = Some(1)

(***************************************************************************)
(* C6  Exit statuses separate "found drift" from "could not run": a run    *)
(* ends with status 1 only after a report with drift_detected = true was   *)
(* built, and a run that ends without a report (a missing input, or an     *)
(* export line that is invalid JSON, not an object, or an object whose     *)
(* content is not a string) ends with status 2.                            *)
(***************************************************************************)
C6_ExitStatusSeparation ==
    /\ exit_status = Some(1) => (HasReport /\ Rep.drift_detected)
    /\ (Finished /\ ~HasReport) => exit_status = Some(2)

(***************************************************************************)
(* C7  A malformed record is fatal: when the export is read and one of     *)
(* its lines is not JSON, the run ends with status 2, the error message    *)
(* gives the number of the first such line counted over all physical       *)
(* lines, and neither report is emitted.                                    *)
(***************************************************************************)
C7_MalformedRecordFatal ==
    (/\ Finished
     /\ ~AllowlistMissing
     /\ ~MemoryMissing
     /\ \E k \in 1..Len(ExportLines) : ExportLines[k].kind = "invalid")
    => /\ exit_status = Some(2)
       /\ \E m \in 1..Len(stderr) :
             /\ stderr[m].kind = "InvalidJSON"
             /\ ExportLines[stderr[m].line].kind = "invalid"
             /\ \A k \in 1..(stderr[m].line - 1) : ExportLines[k].kind # "invalid"
       /\ NothingEmitted

(***************************************************************************)
(* C8  A missing input is fatal: when the given allowlist, the memory      *)
(* export or the evidence root does not exist, the run ends with status 2, *)
(* an error message names a missing path and no report is emitted; with    *)
(* no allowlist option no error comes from the allowlist.  Stated for      *)
(* exports without a line that is not JSON, where a malformed line cannot  *)
(* be the first failure met.                                                *)
(***************************************************************************)
C8_InputNotFoundFatal ==
    (/\ Finished
     /\ \A k \in 1..Len(ExportLines) : ExportLines[k].kind # "invalid")
    => /\ (AllowlistMissing \/ MemoryMissing \/ EvidenceRootMissing) =>
              /\ exit_status = Some(2)
              /\ \E m \in 1..Len(stderr) :
                    \/ (stderr[m].kind = "AllowlistNotFound" /\ AllowlistMissing
                            /\ stderr[m].path = AllowlistPath)
                    \/ (stderr[m].kind = "MemoryNotFound" /\ MemoryMissing
                            /\ stderr[m].path = memory_jsonl)
                    \/ (stderr[m].kind = "EvidenceNotFound" /\ EvidenceRootMissing
                            /\ stderr[m].path = evidence_root)
              /\ NothingEmitted
              /\ ~HasReport
       /\ ~args.allowlist => ~Said("AllowlistNotFound")

(***************************************************************************)
(* C9  Deduplication: at every point of the scan and when it returns, the  *)
(* keys of the reference index are the paths cited by the records read so  *)
(* far, each key once, and the list of a path holds one entry per record   *)
(* that cites it, in file order, however often the record cites it.        *)
(***************************************************************************)
C9_Deduplication ==
    Scanning =>
        /\ Len(references) = Cardinality(Keys(references))
        /\ Keys(references) =
              UNION {CitedBy(ExportLines[k]) :
                        k \in {n \in 1..idx : IsUsableRecord(ExportLines[n])}}
        /\ \A path \in Keys(references) :
              LET citing == Ascending(CitingLines(path))
              IN  /\ Len(RefsOf(references, path)) = Len(citing)
                  /\ \A j \in 1..Len(citing) :
                        RefsOf(references, path)[j] = MemoryReference(ExportLines[citing[j]])

\* Two records cite the same path, one of them more than once.
C9_Witness ==
    /\ pc = "collect_evidence"
    /\ \E path \in Keys(references) :
        /\ Cardinality(CitingLines(path)) = 2
        /\ \E k \in CitingLines(path) :
              LET matches == MatchesOf(ContentOf(ExportLines[k]), spec_filter)
              IN  Cardinality({m \in 1..Len(matches) : matches[m] = path}) >= 2
        /\ \E k \in CitingLines(path) :
              RefsOf(references, path)[1] # MemoryReference(ExportLines[k])

(***************************************************************************)
(* C10  The records-scanned counter is the number of non-blank lines read: *)
(* blank lines do not count, every other line counts once, with or without *)
(* a citation and whether or not the citation passes the spec filter; the  *)
(* report carries the count over the whole export.                         *)
(***************************************************************************)
C10_EntriesScanned ==
    /\ entries_scanned = Cardinality(NonBlankUpTo(idx))
    /\ HasReport =>
          Rep.stats.memory_entries_scanned = Cardinality(NonBlankUpTo(Len(ExportLines)))

\* A report over an export with a blank line and a record whose citation
\* the spec filter discards.
C10_Witness ==
    /\ HasReport
    /\ \E k \in 1..Len(ExportLines) : ExportLines[k].kind = "blank"
    /\ \E k \in 1..Len(ExportLines) :
          /\ IsUsableRecord(ExportLines[k])
          /\ FindIter(ContentOf(ExportLines[k]), 1) # <<>>
          /\ CitedBy(ExportLines[k]) = {}
    /\ Rep.stats.memory_entries_scanned = 1

C12_FilterCaseInsensitive ==
    FilterActive =>
        /\ pc \in {"reconcile", "print_human"} =>
              \A f \in tree :
                  InFilter(relative_path(f, RepoRoot)) =>
                      relative_path(f, RepoRoot) \in evidence_files
        /\ Scanning =>
              \A k \in {n \in 1..idx : IsUsableRecord(ExportLines[n])} :
                  \A path \in NormalisedSpans(ExportLines[k]) :
                      InFilter(path) => path \in Keys(references)

C14_ConsistentSnapshot ==
    (/\ Finished
     /\ HasReport
     /\ ~FilterActive
     /\ tree # {}
     /\ \A f \in tree :
           /\ extract_spec_id(relative_path(f, RepoRoot)) # None
           /\ relative_path(f, RepoRoot) \in AllCitedPaths
     /\ \A path \in AllCitedPaths :
           \E f \in tree : relative_path(f, RepoRoot) = path)
    => /\ ~Rep.drift_detected
       /\ Rep.missing_memory = <<>>
       /\ Rep.missing_evidence = <<>>
       /\ exit_status = Some(0)
       /\ Rep.stats.memory_reference_paths = Cardinality(AllCitedPaths)

(***************************************************************************)
(* C15  Extraction finds every citation: at every point of the scan, for   *)
(* every record read and every citation in its content (the evidence-root  *)
(* prefix followed by path-safe characters), the normalised citation, when *)
(* it passes the spec filter, is a key of the reference index and the      *)
(* record is in its citing list; so in a finished run a cited path that    *)
(* has no file and is not suppressed is in missing_evidence with the       *)
(* record's id and slug, and the exit status is 1.                         *)
(***************************************************************************)
C15_ExtractionComplete ==
    /\ Scanning =>
          \A k \in {n \in 1..idx : IsUsableRecord(ExportLines[n])} :
              \A path \in CitedPaths(ExportLines[k]) :
                  (~FilterActive \/ InFilter(path)) =>
                      /\ path \in Keys(references)
                      /\ \E j \in 1..Len(RefsOf(references, path)) :
                            RefsOf(references, path)[j] =
                                MemoryReference(ExportLines[k])
    /\ (Finished /\ HasReport) =>
          \A k \in 1..Len(ExportLines) :
              \A path \in CitedPaths(ExportLines[k]) :
                  (/\ ~FilterActive \/ InFilter(path)
                   /\ path \notin evidence_files
                   /\ ~Suppressed(path))
                  => /\ exit_status = Some(1)
                     /\ \E e \in 1..Len(Rep.missing_evidence) :
                           /\ Rep.missing_evidence[e].path = path
                           /\ \E j \in 1..Len(Rep.missing_evidence[e].memories) :
                                 /\ Rep.missing_evidence[e].memories[j].id =
                                       ExportLines[k].id
                                 /\ Rep.missing_evidence[e].memories[j].slug =
                                       ExportLines[k].slug

(***************************************************************************)
(* C16  Evidence-root invariant: whatever evidence root the run is given,  *)
(* every key of the reference index and every member of the evidence set   *)
(* is a path under that root.                                              *)
(***************************************************************************)
C16_EvidenceRootInvariant ==
    BuildingReport =>
        \A path \in Keys(references) \cup evidence_files :
            UnderConfiguredRoot(path)

C19_AllowlistMatching ==
    AllowlistLoaded =>
        /\ allowlist = PatternsGiven
        /\ ~args.allowlist => allowlist = <<>>
        /\ ReportBuilt =>
              /\ \A path \in Keys(references) \cup evidence_files :
                    is_allowed(path, allowlist) <=> MatchedByPattern(path)
              /\ \A path \in evidence_files \ Keys(references) :
                    path \in MissingMemoryPaths <=> ~MatchedByPattern(path)
              /\ \A path \in Keys(references) \ evidence_files :
                    path \in MissingEvidencePaths <=> ~MatchedByPattern(path)
              /\ ~args.allowlist =>
                    /\ MissingMemoryPaths = evidence_files \ Keys(references)
                    /\ MissingEvidencePaths = Keys(references) \ evidence_files

\* A report under an allowlist file with a comment, a blank line and two
\* patterns: one discrepancy is suppressed through its spec id, another is
\* reported.
C19_Witness ==
    /\ ReportBuilt
    /\ allowlist_file # None
    /\ Len(allowlist) = 2
    /\ Len(allowlist_file[1]) = 4
    /\ \E path \in evidence_files \ Keys(references) : MatchedByPattern(path)
    /\ \E path \in evidence_files \ Keys(references) :
          path \in MissingMemoryPaths

(***************************************************************************)
(* C20  Drift is accompanied by both outputs: a run that has ended with    *)
(* exit status 1 has printed the complete human-readable report and then   *)
(* the JSON report, and has written the JSON report to the --json-out file *)
(* when one was given.                                                     *)
(***************************************************************************)
C20_DriftWithBothOutputs ==
    exit_status = Some(1) =>
        /\ HasReport
        /\ Len(stdout) = 2
        /\ stdout[1] = Output("human", Rep)
        /\ stdout[2] = Output("json", Rep)
        /\ args.json_out => json_file = Some(Rep)

(***************************************************************************)
(* C21  Scoped resources: the handle on the memory export is open only     *)
(* while collect_memory_references reads the file, and it is closed when   *)
(* the run has ended, whether the scan completed, a malformed line raised  *)
(* in the middle of the file, or another error was raised while a record   *)
(* was processed.                                                          *)
(***************************************************************************)
C21_ScopedResources ==
    /\ handle_open => pc = "read_lines"
    /\ Finished => ~handle_open

\* A run ended by a malformed line with lines of the export still unread.
C21_Witness ==
    /\ Finished
    /\ Said("InvalidJSON")
    /\ 1 <= idx
    /\ idx < Len(ExportLines)
    /\ ~handle_open

(***************************************************************************)
(* C22  Migration apply mode classifies every entry exactly once, in       *)
(* source order: the results so far are those of the first entries, each   *)
(* with status skipped_existing_id when its id is in the table or was      *)
(* inserted earlier in the run, else skipped_existing_slug when its slug   *)
(* is not empty and is in the table or was inserted earlier, else inserted *)
(* with its row in the table; and when the run has ended, the results hold *)
(* one item per entry that passed the domain filter and summary.inserted + *)
(* summary.skipped is the number of those entries.                         *)
(***************************************************************************)
C22_ApplyClassification ==
    MigApplyMode =>
        /\ Len(MigResults) <= Len(mig.entries)
        /\ \A k \in 1..Len(MigResults) :
              /\ MigResults[k].id = mig.entries[k].id
              /\ MigResults[k].slug = mig.entries[k].slug
              /\ MigResults[k].status = StatusDue(k)
              /\ MigResults[k].status = "inserted" =>
                    \E r \in 1..Len(VisibleRows(mig)) :
                        VisibleRows(mig)[r] = Row(mig.entries[k].id, mig.entries[k].slug)
        /\ MigEndedAfterConnect =>
              /\ Len(MigResults) = Cardinality(PassingDomainFilter)
              /\ MigSummary.inserted # None
              /\ MigSummary.skipped # None
              /\ MigSummary.inserted[1] + MigSummary.skipped[1]
                    = Cardinality(PassingDomainFilter)

(***************************************************************************)
(* C23  Migration dry-run has no effect on the database: with --dry-run    *)
(* alone the database is never opened and the table stays as it was, the   *)
(* report (also the one emitted) has mode dry-run, an empty results list,  *)
(* summary.total equal to the number of entries that pass the domain       *)
(* filter and per-domain counts that add up to it; with both --dry-run and *)
(* --apply, or with neither, the run aborts before any source is read.     *)
(***************************************************************************)
C23_DryRunNoEffect ==
    /\ (mig.args.dry_run /\ ~mig.args.apply) =>
          /\ mig.conn = "none"
          /\ mig.memories = TableBefore
          /\ mig.pending = <<>>
          /\ \A rep \in {mig.report, MigEmitted} \ {None} :
                /\ rep[1].mode = "dry-run"
                /\ rep[1].results = <<>>
                /\ rep[1].summary.total = Cardinality(PassingDomainFilter)
                /\ \A d \in DOMAIN rep[1].summary.domains :
                      rep[1].summary.domains[d] =
                          Cardinality({k \in PassingDomainFilter : DomainOfSource(k) = d})
                /\ \A k \in PassingDomainFilter :
                      DomainOfSource(k) \in DOMAIN rep[1].summary.domains
          /\ (mig.pc = "done" /\ mig.raised = None) => MigEmitted = mig.report
    /\ (mig.args.dry_run <=> mig.args.apply) =>
          /\ mig.pc \in {"parse_args", "done"}
          /\ ~mig.sources_read
          /\ mig.conn = "none"
          /\ mig.report = None
          /\ MigEmitted = None
          /\ mig.pc = "done" => mig.exit = Some(1)

\* A dry run has ended with a report over entries of two domains, next to a
\* database that holds rows.
C23_Witness ==
    /\ mig.args.dry_run
    /\ ~mig.args.apply
    /\ mig.pc = "done"
    /\ mig.exit = Some(0)
    /\ MigEmitted # None
    /\ MigEmitted[1].summary.total = 3
    /\ Cardinality(DOMAIN MigEmitted[1].summary.domains) = 2
    /\ TableBefore # <<>>

(***************************************************************************)
(* C24  The telemetry log is append-only: at every point the file holds    *)
(* the lines it held before the first call followed by one record, with    *)
(* schemaVersion 2.0, per call that succeeded, in call order; a call that  *)
(* raised (a metrics or synthesis file missing or not JSON, among others)  *)
(* has appended nothing and has not created the file; so after n           *)
(* successful calls on an empty or absent file the file holds exactly n    *)
(* records.                                                                *)
(***************************************************************************)
C24_TelemetryAppendOnly ==
    /\ IF RecordsWritten = <<>>
       THEN tel.telemetry_file = tel.before
       ELSE tel.telemetry_file = Some(LinesBefore \o RecordsWritten)
    /\ \A k \in 1..Len(RecordsWritten) :
          /\ RecordsWritten[k].schemaVersion = "2.0"
          /\ \A j \in 1..(k - 1) :
                RecordsWritten[j].timestamp < RecordsWritten[k].timestamp
    /\ (LinesBefore = <<>> /\ tel.telemetry_file # None) =>
          Len(tel.telemetry_file[1]) = Len(RecordsWritten)

\* Two calls have succeeded on a file that held a line, and the file holds
\* three lines.
C24_Witness ==
    /\ tel.pc = "between_calls"
    /\ Len(RecordsWritten) = 2
    /\ tel.before = Some(<<ForeignLine>>)
    /\ Len(tel.telemetry_file[1]) = 3

(***************************************************************************)
(* C25  Agent metrics status: when a call of cmd_extract_agent has ended,  *)
(* the metrics file is written; its status is ok exactly when exec_status  *)
(* is 0 and the agent output was read and parsed without a truthy          *)
(* top-level error; in every other case its status is error and its error  *)
(* field is not null.                                                      *)
(***************************************************************************)
C25_AgentMetricsStatus ==
    ExtractEnded =>
        /\ tel.metrics_file # None
        /\ tel.metrics_file[1].status = "ok" <=>
              (tel.args.exec_status = 0 /\ OutputClean)
        /\ tel.metrics_file[1].status # "ok" =>
              /\ tel.metrics_file[1].status = "error"
              /\ tel.metrics_file[1].error # None

(***************************************************************************)
(* C26  The two drift lists are disjoint and each is duplicate-free: in    *)
(* every report no path is in both missing_memory and missing_evidence,    *)
(* every missing_memory path is a member of the evidence set, every        *)
(* missing_evidence path is a key of the reference index with a non-empty  *)
(* citing list, and no path occurs twice within one list.                  *)
(***************************************************************************)
C26_DriftListsDisjoint ==
    HasReport =>
        /\ MissingMemoryPaths \cap MissingEvidencePaths = {}
        /\ MissingMemoryPaths \subseteq evidence_files
        /\ \A k \in 1..Len(Rep.missing_evidence) :
              /\ Rep.missing_evidence[k].path \in Keys(references)
              /\ RefsOf(references, Rep.missing_evidence[k].path) # <<>>
              /\ Rep.missing_evidence[k].memories # <<>>
        /\ \A i, j \in 1..Len(Rep.missing_memory) :
              i # j => Rep.missing_memory[i].path # Rep.missing_memory[j].path
        /\ \A i, j \in 1..Len(Rep.missing_evidence) :
              i # j => Rep.missing_evidence[i].path # Rep.missing_evidence[j].path

\* A report with several entries in each drift list.
C26_Witness ==
    /\ HasReport
    /\ Len(Rep.missing_memory) >= 2
    /\ Len(Rep.missing_evidence) >= 2

(***************************************************************************)
(* C27  Order of failure detection: the inputs are checked in the order    *)
(* allowlist file, memory export (existence, then its lines top to         *)
(* bottom), evidence root; a run that has ended on inputs with a failure   *)
(* has status 2 and exactly one error message, that of the first failure   *)
(* in this order, and has read no later input: the export is not opened    *)
(* after a missing allowlist, no line is read past the first malformed     *)
(* one, and the evidence root is not scanned.                              *)
(***************************************************************************)
C27_FailureOrder ==
    (Finished /\ FirstFailure # "none") =>
        /\ exit_status = Some(2)
        /\ Len(stderr) = 1
        /\ stderr[1].kind = FirstFailure
        /\ ~HasReport
        /\ FirstFailure \in {"AllowlistNotFound", "MemoryNotFound"} => idx = 0
        /\ FirstFailure = "InvalidJSON" =>
              /\ stderr[1].line = Min(InvalidLines)
              /\ idx = Min(InvalidLines)
        /\ FirstFailure # "EvidenceNotFound" => (tree = {} /\ evidence_files = {})

C29_NoDuplicateInsert ==
    /\ MigInsertReached =>
          \A r \in 1..Len(VisibleRows(mig)) :
              /\ VisibleRows(mig)[r].id # MigEntry.id
              /\ MigEntry.slug # None => VisibleRows(mig)[r].slug # MigEntry.slug
    /\ mig.raised # Some("IntegrityError")

(***************************************************************************)
(* C30  Migration apply is all-or-nothing: the table changes only at the   *)
(* commit that follows the last entry, so while the loop runs it is as it  *)
(* was before the run; when a step of the loop has raised and the run has  *)
(* ended, the connection is closed, nothing was committed, the table is    *)
(* exactly as it was before the run, and no report was written or printed. *)
(***************************************************************************)
C30_AllOrNothing ==
    /\ mig.pc \in {"parse_args", "load_sources", "connect", "select", "loop"} =>
          mig.memories = TableBefore
    /\ mig.memories # TableBefore =>
          /\ mig.raised = None
          /\ Len(MigResults) = Len(mig.entries)
          /\ mig.memories =
                TableBefore
                \o [k \in 1..Cardinality(InsertedBefore(Len(mig.entries) + 1)) |->
                       mig.memories[Len(TableBefore) + k]]
    /\ (mig.pc = "done" /\ mig.raised # None) =>
          /\ mig.conn \in {"none", "closed"}
          /\ mig.memories = TableBefore
          /\ mig.pending = <<>>
          /\ MigEmitted = None
          /\ mig.exit = Some(1)

\* A run that had inserted a row was ended by an INSERT that raised.
C30_Witness ==
    /\ mig.pc = "done"
    /\ mig.raised = Some("IntegrityError")
    /\ mig.inserted >= 1
    /\ mig.conn = "closed"
    /\ TableBefore # <<>>
    /\ mig.memories = TableBefore

====
